---- MODULE Spec2Model ----
(***************************************************************************)
(* A model of the solana-server HTTP service: the router of main.rs, the   *)
(* request handlers of src/modules/*.rs and the error-to-response mapping  *)
(* of src/utils/errors.rs.  One request is followed from the router to its *)
(* response; the ledger RPC client is an environment whose every call may  *)
(* fail or answer.                                                         *)
(*                                                                         *)
(* Text is a sequence of one-character strings, binary data a sequence of  *)
(* bytes (0..255), a u64 a sequence of 8 bytes, least significant first    *)
(* (TLC's integers are 32 bits wide, a u64 is not).                        *)
(***************************************************************************)
EXTENDS Integers, Sequences, FiniteSets, TLC

----------------------------------------------------------------------------
(* Option<T> and Result<T, E> *)

None == [some |-> FALSE]
Some(v) == [some |-> TRUE, val |-> v]

Ok(v) == [ok |-> TRUE, val |-> v]
Err(e) == [ok |-> FALSE, err |-> e]

----------------------------------------------------------------------------
(* Sequences *)

Rep(x, n) == [i \in 1..n |-> x]

Reverse(s) == [i \in 1..Len(s) |-> s[Len(s) + 1 - i]]

RECURSIVE LeadingCount(_, _)
LeadingCount(s, x) ==
    IF s = <<>> \/ Head(s) # x THEN 0 ELSE 1 + LeadingCount(Tail(s), x)

\* The position of c in the alphabet, counted from 0; -1 when it is not in it.
IndexOf(alphabet, c) ==
    IF \E i \in 1..Len(alphabet) : alphabet[i] = c
    THEN (CHOOSE i \in 1..Len(alphabet) : alphabet[i] = c) - 1
    ELSE -1

\* Text is a sequence of characters.  A character is the one-character
\* string of it where TLA+ can write one (printable ASCII, "\t", "\n", "\f",
\* "\r"); the grave accent is "grave" and any other character is named by
\* its code point, "U+00A0".

\* char::is_whitespace, the Unicode property White_Space that str::trim()
\* strips.
Whitespace ==
    { "\t", "\n", "U+000B", "\f", "\r", " ", "U+0085", "U+00A0", "U+1680",
      "U+2000", "U+2001", "U+2002", "U+2003", "U+2004", "U+2005", "U+2006",
      "U+2007", "U+2008", "U+2009", "U+200A", "U+2028", "U+2029", "U+202F",
      "U+205F", "U+3000" }

\* str::trim().is_empty(): nothing but white space.
IsBlank(s) == \A i \in 1..Len(s) : s[i] \in Whitespace

\* NonBlank with the filter on white space left out.
NonBlank_unfiltered(opt) == opt

\* Option<String>.as_ref().filter(|s| !s.trim().is_empty())
NonBlank(opt) == IF opt.some /\ ~IsBlank(opt.val) THEN opt ELSE None

----------------------------------------------------------------------------
(* u64: 8 bytes, least significant first *)

U64_BYTES == 8

RECURSIVE NatToLE(_, _)
NatToLE(n, len) ==
    IF len = 0 THEN <<>> ELSE <<n % 256>> \o NatToLE(n \div 256, len - 1)

U64(n) == NatToLE(n, U64_BYTES)

U64_MAX == Rep(255, U64_BYTES)

\* a < b, compared from the most significant byte down.
RECURSIVE LtFrom(_, _, _)
LtFrom(a, b, i) ==
    IF i = 0 THEN FALSE
    ELSE IF a[i] # b[i] THEN a[i] < b[i]
    ELSE LtFrom(a, b, i - 1)

U64Lt(a, b) == LtFrom(a, b, U64_BYTES)
U64Gt(a, b) == U64Lt(b, a)
U64Le(a, b) == ~U64Lt(b, a)

\* a * k + carry for a small k, as len + 1 bytes (the last one is the overflow).
RECURSIVE MulAddLE(_, _, _)
MulAddLE(a, k, carry) ==
    IF a = <<>> THEN <<carry>>
    ELSE LET v == Head(a) * k + carry
         IN  <<v % 256>> \o MulAddLE(Tail(a), k, v \div 256)

\* a * k, saturating at u64::MAX.
U64MulSat(a, k) ==
    LET r == MulAddLE(a, k, 0)
    IN  IF r[U64_BYTES + 1] # 0 THEN U64_MAX ELSE SubSeq(r, 1, U64_BYTES)

\* a / 2: every byte shifted right, taking the low bit of the byte above.
U64Half(a) ==
    [i \in 1..U64_BYTES |->
        (a[i] \div 2) + (IF i < U64_BYTES THEN (a[i + 1] % 2) * 128 ELSE 0)]

----------------------------------------------------------------------------
(* Base-58 (the bs58 crate, Bitcoin alphabet) *)

BASE58_ALPHABET ==
    << "1","2","3","4","5","6","7","8","9",
       "A","B","C","D","E","F","G","H","J","K","L","M","N","P","Q","R","S",
       "T","U","V","W","X","Y","Z",
       "a","b","c","d","e","f","g","h","i","j","k","m","n","o","p","q","r",
       "s","t","u","v","w","x","y","z" >>

\* bs58 converts between radix 256 and radix 58 with one loop, in both
\* directions: for every input digit, the little-endian output buffer is
\* multiplied by the input radix, the digit is added, and the carry that is
\* left is pushed as new output digits.  The loops are folded by halving the
\* index range, the left half evaluated (the IF reads it) before the right
\* half starts, which keeps the evaluation shallow.
RadixStep(st, x, from, to) ==
    LET v == x * from + st.carry
    IN  [out |-> Append(st.out, v % to), carry |-> v \div to]

RECURSIVE RadixRange(_, _, _, _, _, _)
RadixRange(buf, lo, hi, st, from, to) ==
    IF lo > hi THEN st
    ELSE IF lo = hi THEN RadixStep(st, buf[lo], from, to)
    ELSE LET mid == (lo + hi) \div 2
             left == RadixRange(buf, lo, mid, st, from, to)
         IN  IF left.carry >= 0
             THEN RadixRange(buf, mid + 1, hi, left, from, to)
             ELSE left

RECURSIVE PushCarry(_, _, _)
PushCarry(out, carry, to) ==
    IF carry = 0 THEN out ELSE PushCarry(Append(out, carry % to), carry \div to, to)

RadixMulAdd(buf, digit, from, to) ==
    LET st == RadixRange(buf, 1, Len(buf), [out |-> <<>>, carry |-> digit], from, to)
    IN  PushCarry(st.out, st.carry, to)

RECURSIVE RadixDigits(_, _, _, _, _, _)
RadixDigits(digits, lo, hi, buf, from, to) ==
    IF lo > hi THEN buf
    ELSE IF lo = hi THEN RadixMulAdd(buf, digits[lo], from, to)
    ELSE LET mid == (lo + hi) \div 2
             left == RadixDigits(digits, lo, mid, buf, from, to)
         IN  IF Len(left) >= 0
             THEN RadixDigits(digits, mid + 1, hi, left, from, to)
             ELSE left

\* The digits (most significant first) in radix `from` as the digits in radix
\* `to`, most significant first, a leading zero digit kept as a zero digit.
RadixConvert(digits, from, to) ==
    Rep(0, LeadingCount(digits, 0))
    \o Reverse(RadixDigits(digits, 1, Len(digits), <<>>, from, to))

\* bs58::decode(s).into_vec()
Base58Decode(s) ==
    LET digits == [i \in 1..Len(s) |-> IndexOf(BASE58_ALPHABET, s[i])]
    IN  IF \E i \in 1..Len(s) : digits[i] < 0 THEN Err("InvalidCharacter")
        ELSE Ok(RadixConvert(digits, 58, 256))

\* bs58::encode(bytes).into_string()
Base58Encode(bytes) ==
    LET digits == RadixConvert(bytes, 256, 58)
    IN  [i \in 1..Len(digits) |-> BASE58_ALPHABET[digits[i] + 1]]

----------------------------------------------------------------------------
(* Base-64 (base64::engine::general_purpose::STANDARD: padded, canonical) *)

BASE64_ALPHABET ==
    << "A","B","C","D","E","F","G","H","I","J","K","L","M","N","O","P","Q",
       "R","S","T","U","V","W","X","Y","Z",
       "a","b","c","d","e","f","g","h","i","j","k","l","m","n","o","p","q",
       "r","s","t","u","v","w","x","y","z",
       "0","1","2","3","4","5","6","7","8","9","+","/" >>

B64Char(n) == BASE64_ALPHABET[n + 1]

RECURSIVE Base64Encode(_)
Base64Encode(b) ==
    IF Len(b) = 0 THEN <<>>
    ELSE IF Len(b) = 1 THEN
        << B64Char(b[1] \div 4), B64Char((b[1] % 4) * 16), "=", "=" >>
    ELSE IF Len(b) = 2 THEN
        << B64Char(b[1] \div 4), B64Char((b[1] % 4) * 16 + b[2] \div 16),
           B64Char((b[2] % 16) * 4), "=" >>
    ELSE
        << B64Char(b[1] \div 4), B64Char((b[1] % 4) * 16 + b[2] \div 16),
           B64Char((b[2] % 16) * 4 + b[3] \div 64), B64Char(b[3] % 64) >>
        \o Base64Encode(SubSeq(b, 4, Len(b)))

\* One group of four characters; only the last group may be padded, and the
\* bits a padded group leaves unused must be zero.
Base64Group(g, last) ==
    LET v == [i \in 1..4 |-> IndexOf(BASE64_ALPHABET, g[i])]
    IN  IF v[1] < 0 \/ v[2] < 0 THEN Err("InvalidByte")
        ELSE IF g[3] = "=" THEN
            IF last /\ g[4] = "=" /\ v[2] % 16 = 0
            THEN Ok(<< v[1] * 4 + v[2] \div 16 >>)
            ELSE Err("InvalidPadding")
        ELSE IF v[3] < 0 THEN Err("InvalidByte")
        ELSE IF g[4] = "=" THEN
            IF last /\ v[3] % 4 = 0
            THEN Ok(<< v[1] * 4 + v[2] \div 16, (v[2] % 16) * 16 + v[3] \div 4 >>)
            ELSE Err("InvalidPadding")
        ELSE IF v[4] < 0 THEN Err("InvalidByte")
        ELSE Ok(<< v[1] * 4 + v[2] \div 16, (v[2] % 16) * 16 + v[3] \div 4,
                   (v[3] % 4) * 64 + v[4] >>)

RECURSIVE Base64Groups(_)
Base64Groups(s) ==
    IF s = <<>> THEN Ok(<<>>)
    ELSE LET g == Base64Group(SubSeq(s, 1, 4), Len(s) = 4)
         IN  IF ~g.ok THEN g
             ELSE LET rest == Base64Groups(SubSeq(s, 5, Len(s)))
                  IN  IF ~rest.ok THEN rest ELSE Ok(g.val \o rest.val)

\* general_purpose::STANDARD.decode(s)
Base64Decode(s) ==
    IF Len(s) % 4 # 0 THEN Err("InvalidLength") ELSE Base64Groups(s)

----------------------------------------------------------------------------
(* Text as bytes *)

ASCII_PRINTABLE ==
    << " ","!","\"","#","$","%","&","'","(",")","*","+",",","-",".","/",
       "0","1","2","3","4","5","6","7","8","9",":",";","<","=",">","?",
       "@","A","B","C","D","E","F","G","H","I","J","K","L","M","N","O",
       "P","Q","R","S","T","U","V","W","X","Y","Z","[","\\","]","^","_",
       "grave","a","b","c","d","e","f","g","h","i","j","k","l","m","n","o",
       "p","q","r","s","t","u","v","w","x","y","z","{","|","}","~" >>

\* The code points of the characters that are written by name or by an
\* escape.
NAMED_CHARACTERS ==
    { <<"U+0000", 0>>, <<"U+0001", 1>>, <<"U+0002", 2>>, <<"U+0003", 3>>,
      <<"U+0004", 4>>, <<"U+0005", 5>>, <<"U+0006", 6>>, <<"U+0007", 7>>,
      <<"U+0008", 8>>, <<"\t", 9>>, <<"\n", 10>>, <<"U+000B", 11>>,
      <<"\f", 12>>, <<"\r", 13>>, <<"U+000E", 14>>, <<"U+000F", 15>>,
      <<"U+0010", 16>>, <<"U+0011", 17>>, <<"U+0012", 18>>, <<"U+0013", 19>>,
      <<"U+0014", 20>>, <<"U+0015", 21>>, <<"U+0016", 22>>, <<"U+0017", 23>>,
      <<"U+0018", 24>>, <<"U+0019", 25>>, <<"U+001A", 26>>, <<"U+001B", 27>>,
      <<"U+001C", 28>>, <<"U+001D", 29>>, <<"U+001E", 30>>, <<"U+001F", 31>>,
      <<"U+007F", 127>>, <<"U+0085", 133>>, <<"U+00A0", 160>>,
      <<"U+00E9", 233>>, <<"U+1680", 5760>>, <<"U+2000", 8192>>,
      <<"U+2001", 8193>>, <<"U+2002", 8194>>, <<"U+2003", 8195>>,
      <<"U+2004", 8196>>, <<"U+2005", 8197>>, <<"U+2006", 8198>>,
      <<"U+2007", 8199>>, <<"U+2008", 8200>>, <<"U+2009", 8201>>,
      <<"U+200A", 8202>>, <<"U+2028", 8232>>, <<"U+2029", 8233>>,
      <<"U+202F", 8239>>, <<"U+205F", 8287>>, <<"U+20AC", 8364>>,
      <<"U+3000", 12288>> }

\* The code point of a character: printable ASCII by its place, the others
\* by their row.  A character that is in neither has no value here.
CodePoint(c) ==
    IF IndexOf(ASCII_PRINTABLE, c) >= 0
    THEN IndexOf(ASCII_PRINTABLE, c) + 32
    ELSE (CHOOSE row \in NAMED_CHARACTERS : row[1] = c)[2]

\* The UTF-8 encoding of a code point of the basic plane.
Utf8(cp) ==
    IF cp < 128 THEN <<cp>>
    ELSE IF cp < 2048 THEN <<192 + (cp \div 64), 128 + (cp % 64)>>
    ELSE <<224 + (cp \div 4096), 128 + ((cp \div 64) % 64), 128 + (cp % 64)>>

\* str::as_bytes(): the UTF-8 bytes of the text.
RECURSIVE AsBytes(_)
AsBytes(s) ==
    IF s = <<>> THEN <<>> ELSE Utf8(CodePoint(Head(s))) \o AsBytes(Tail(s))

----------------------------------------------------------------------------
(* Program and sysvar ids (solana_sdk::system_program, spl_token,          *)
(* solana_sdk::sysvar::rent)                                               *)

SYSTEM_PROGRAM_ID ==
    <<0,0,0,0,0,0,0,0,0,0,0,0,0,0,0,0,0,0,0,0,0,0,0,0,0,0,0,0,0,0,0,0>>

SPL_TOKEN_ID ==
    <<6,221,246,225,215,101,161,147,217,203,225,70,206,235,121,172,28,180,
    133,237,95,91,55,145,58,140,245,133,126,255,0,169>>

SYSVAR_RENT_ID ==
    <<6,167,213,23,25,44,92,81,33,140,201,76,61,74,241,127,88,218,238,8,155,
    161,253,68,227,219,217,138,0,0,0,0>>

----------------------------------------------------------------------------
(* Ed25519 (solana_sdk::signature, an external library), tabulated: the    *)
(* key pairs the model uses and the signatures the scheme gives for them,  *)
(* computed with the reference implementation of RFC 8032.                 *)

KEY1_SECRET ==
    <<228,20,190,44,230,34,170,98,191,178,41,221,150,45,169,254,76,6,76,175,
    211,110,71,39,76,135,149,166,86,252,208,250>>

KEY1_PUBLIC ==
    <<246,48,23,213,80,127,56,60,158,226,182,44,149,217,11,115,184,96,226,
    10,244,102,65,115,47,64,91,137,147,199,110,164>>

KEY2_SECRET ==
    <<24,68,112,75,204,117,47,161,228,67,169,235,189,18,79,19,214,224,82,
    147,198,207,124,173,170,94,196,40,147,88,76,98>>

KEY2_PUBLIC ==
    <<120,113,5,114,42,103,251,35,146,96,57,15,224,31,29,247,245,169,202,
    189,94,100,55,243,100,76,57,148,105,206,118,122>>

\* 32 bytes that are the encoding of no curve point.
OFF_CURVE ==
    <<133,65,239,163,220,50,117,76,122,126,189,182,144,100,151,131,233,112,
    231,135,243,241,184,42,118,252,161,19,68,34,79,134>>

\* The public key of the first test vector of RFC 8032.
RFC8032_PUBLIC ==
    <<215,90,152,1,130,177,10,183,213,75,254,211,201,100,7,58,14,225,114,
    243,218,166,35,37,175,2,26,104,247,7,81,26>>

\* Keypair::sign_message for the messages over {"h", " "} of up to 3 bytes,
\* "hello" and "A": under the two key pairs, and under the first secret key
\* paired with the second public key.
ED25519_SIGNATURES ==
    {
      [secret |-> KEY1_SECRET, public |-> KEY1_PUBLIC, msg |-> <<>>,
       sig |->
          <<157,47,99,235,249,213,70,26,1,91,55,245,178,13,209,52,56,81,150,
          184,229,149,132,83,14,17,183,144,184,253,162,231,127,16,39,200,71,
          13,229,88,96,153,244,190,170,241,206,13,211,190,103,186,73,82,168,
          168,189,91,153,235,172,12,147,12>>],
      [secret |-> KEY1_SECRET, public |-> KEY1_PUBLIC, msg |-> <<104>>,
       sig |->
          <<48,95,41,97,166,139,26,108,249,107,220,186,85,13,222,91,244,182,
          53,120,13,200,187,9,181,246,79,42,213,20,134,155,40,238,224,211,3,
          233,202,2,215,121,217,37,180,195,191,105,156,157,77,158,74,63,141,
          151,118,55,214,181,254,188,123,12>>],
      [secret |-> KEY1_SECRET, public |-> KEY1_PUBLIC, msg |-> <<32>>,
       sig |->
          <<49,194,7,54,231,53,36,126,114,190,110,27,104,50,1,131,214,219,
          128,5,75,4,170,229,39,78,118,95,124,28,216,65,16,97,24,109,223,45,
          34,143,242,189,114,9,26,11,186,163,222,190,115,114,11,194,204,107,
          17,40,208,159,124,215,55,8>>],
      [secret |-> KEY1_SECRET, public |-> KEY1_PUBLIC, msg |-> <<104,104>>,
       sig |->
          <<7,192,67,168,122,215,181,120,8,119,140,211,58,96,168,106,58,51,
          75,195,37,63,140,69,10,177,161,137,57,5,205,11,6,91,227,202,240,
          127,161,47,75,216,77,161,244,181,208,112,211,20,211,43,135,196,88,
          106,171,135,39,201,106,17,156,2>>],
      [secret |-> KEY1_SECRET, public |-> KEY1_PUBLIC, msg |-> <<104,32>>,
       sig |->
          <<197,63,233,231,11,41,90,113,156,55,29,100,71,46,33,255,87,186,
          166,216,53,190,25,105,26,156,80,145,226,210,56,93,182,203,87,73,
          160,11,253,128,188,48,37,58,38,76,107,1,56,238,62,40,136,182,58,
          31,115,211,64,123,148,222,225,3>>],
      [secret |-> KEY1_SECRET, public |-> KEY1_PUBLIC, msg |-> <<32,104>>,
       sig |->
          <<97,167,87,41,49,255,213,3,137,18,213,4,13,166,8,175,47,112,128,
          96,212,250,150,220,198,81,130,151,150,48,151,120,98,215,123,80,98,
          203,220,177,51,249,5,253,196,4,161,25,166,144,13,123,55,42,218,
          216,146,122,249,118,239,166,241,2>>],
      [secret |-> KEY1_SECRET, public |-> KEY1_PUBLIC, msg |-> <<32,32>>,
       sig |->
          <<155,178,79,0,231,88,234,49,140,253,224,233,32,160,237,254,116,
          128,211,167,229,53,69,56,183,76,20,63,17,83,209,172,128,190,164,
          21,161,233,182,248,70,75,200,139,75,53,174,196,160,49,56,59,153,
          94,163,113,161,189,208,77,155,223,47,11>>],
      [secret |-> KEY1_SECRET, public |-> KEY1_PUBLIC, msg |-> <<104,104,104>>,
       sig |->
          <<239,164,9,215,122,247,96,216,26,16,168,47,239,133,252,85,205,
          174,3,226,48,171,13,179,162,255,115,19,224,61,249,178,33,0,9,195,
          88,192,164,229,190,36,7,158,39,15,68,128,194,11,23,118,30,232,245,
          34,52,19,123,149,37,56,73,11>>],
      [secret |-> KEY1_SECRET, public |-> KEY1_PUBLIC, msg |-> <<104,104,32>>,
       sig |->
          <<31,177,12,120,87,80,139,102,28,131,247,230,186,206,12,129,16,
          200,128,143,187,177,6,54,5,50,30,52,149,196,109,91,45,249,192,141,
          155,189,29,35,207,201,240,159,233,51,252,66,128,191,53,249,72,149,
          231,169,71,146,140,72,49,142,91,2>>],
      [secret |-> KEY1_SECRET, public |-> KEY1_PUBLIC, msg |-> <<104,32,104>>,
       sig |->
          <<198,105,188,43,168,141,82,57,43,146,71,198,15,245,80,228,179,
          218,224,37,100,102,199,85,83,3,225,9,242,52,158,81,120,60,195,58,
          236,48,113,70,83,0,11,64,163,77,67,67,100,153,52,45,83,185,2,125,
          36,94,142,24,182,9,245,3>>],
      [secret |-> KEY1_SECRET, public |-> KEY1_PUBLIC, msg |-> <<104,32,32>>,
       sig |->
          <<3,9,107,178,171,157,252,161,56,218,114,254,25,48,122,112,140,86,
          37,37,55,106,229,149,220,178,28,30,221,79,122,72,233,28,226,79,
          209,93,177,181,97,71,220,184,164,215,54,38,198,107,235,113,199,
          189,119,111,16,174,255,145,192,117,193,11>>],
      [secret |-> KEY1_SECRET, public |-> KEY1_PUBLIC, msg |-> <<32,104,104>>,
       sig |->
          <<75,218,120,226,253,67,248,157,155,49,5,3,189,254,168,51,218,112,
          119,138,212,137,2,10,134,71,31,99,197,29,204,119,185,247,100,109,
          8,93,0,152,62,203,195,233,93,112,188,37,149,73,105,211,73,118,110,
          230,219,53,219,236,81,253,116,4>>],
      [secret |-> KEY1_SECRET, public |-> KEY1_PUBLIC, msg |-> <<32,104,32>>,
       sig |->
          <<235,69,246,230,181,7,231,44,202,198,201,30,37,12,49,174,210,186,
          174,149,224,63,68,23,22,163,45,43,127,178,77,24,251,84,18,182,98,
          194,91,206,65,175,148,213,105,54,234,195,162,100,58,156,104,209,
          170,187,168,173,126,69,62,70,225,13>>],
      [secret |-> KEY1_SECRET, public |-> KEY1_PUBLIC, msg |-> <<32,32,104>>,
       sig |->
          <<77,104,211,166,78,220,200,79,150,219,30,233,41,41,252,33,162,73,
          93,143,117,38,111,56,187,43,4,15,87,178,50,28,114,116,139,10,142,
          97,57,148,234,153,228,17,251,1,166,176,4,2,193,212,100,111,59,132,
          20,156,98,45,96,110,177,6>>],
      [secret |-> KEY1_SECRET, public |-> KEY1_PUBLIC, msg |-> <<32,32,32>>,
       sig |->
          <<7,158,22,34,157,206,27,110,5,99,86,153,54,220,193,139,164,109,
          110,32,200,137,95,253,26,152,151,101,123,254,117,143,21,12,246,
          154,243,222,31,120,25,61,32,27,71,103,238,47,55,21,193,91,198,241,
          101,85,54,247,219,101,208,230,190,0>>],
      [secret |-> KEY1_SECRET, public |-> KEY1_PUBLIC, msg |-> <<104,101,108,108,111>>,
       sig |->
          <<139,69,33,202,169,3,174,9,246,138,247,16,111,59,247,31,239,165,
          12,188,168,109,225,55,104,210,16,184,177,204,167,88,207,235,137,
          232,162,18,37,153,186,27,48,113,105,136,189,182,222,239,67,7,19,
          90,111,177,113,221,72,75,92,248,120,8>>],
      [secret |-> KEY1_SECRET, public |-> KEY1_PUBLIC, msg |-> <<65>>,
       sig |->
          <<51,56,134,88,222,88,80,42,195,229,99,64,94,135,47,238,171,8,184,
          10,108,214,88,57,69,137,48,154,181,85,220,47,102,242,197,145,237,
          116,86,194,101,157,164,121,133,59,87,188,88,202,59,199,20,136,248,
          30,241,53,29,27,53,204,235,15>>],
      [secret |-> KEY2_SECRET, public |-> KEY2_PUBLIC, msg |-> <<>>,
       sig |->
          <<218,63,30,231,181,214,192,1,162,196,16,109,76,195,208,102,150,
          251,101,32,221,57,191,117,24,98,54,76,84,149,142,136,89,222,205,
          249,51,229,78,128,216,197,143,109,71,156,220,75,34,18,7,207,83,
          193,252,131,43,43,6,218,114,138,189,5>>],
      [secret |-> KEY2_SECRET, public |-> KEY2_PUBLIC, msg |-> <<104>>,
       sig |->
          <<150,115,191,41,120,7,161,156,166,241,166,48,174,45,192,240,221,
          75,202,17,222,130,14,49,226,143,120,80,161,223,144,96,23,238,172,
          19,168,39,129,176,168,240,0,74,7,51,52,110,221,133,22,125,161,58,
          191,119,34,18,53,237,228,123,62,10>>],
      [secret |-> KEY2_SECRET, public |-> KEY2_PUBLIC, msg |-> <<32>>,
       sig |->
          <<212,112,4,149,147,64,120,246,185,253,97,183,76,9,105,75,48,45,
          21,60,235,193,120,37,246,139,18,129,35,244,50,240,227,86,191,124,
          223,156,226,35,193,247,128,243,78,154,32,163,229,160,116,108,120,
          128,154,55,173,152,163,23,215,142,43,10>>],
      [secret |-> KEY2_SECRET, public |-> KEY2_PUBLIC, msg |-> <<104,104>>,
       sig |->
          <<14,127,28,0,8,62,203,127,183,28,188,94,232,170,10,78,12,198,179,
          192,151,246,170,189,222,66,122,32,76,58,192,4,153,101,129,138,185,
          155,22,220,73,231,166,98,81,104,251,238,60,231,221,242,112,215,32,
          241,234,234,26,90,203,122,80,1>>],
      [secret |-> KEY2_SECRET, public |-> KEY2_PUBLIC, msg |-> <<104,32>>,
       sig |->
          <<230,196,53,33,113,56,174,120,102,16,254,169,171,193,129,242,244,
          21,11,47,24,239,247,125,179,114,119,234,242,248,134,7,62,122,134,
          146,209,124,164,60,20,179,185,0,137,174,55,116,82,135,253,254,215,
          171,130,66,177,221,31,42,59,9,6,14>>],
      [secret |-> KEY2_SECRET, public |-> KEY2_PUBLIC, msg |-> <<32,104>>,
       sig |->
          <<195,46,154,25,211,167,86,41,132,168,39,93,241,102,136,159,248,
          246,219,63,171,222,98,223,39,160,161,199,26,2,1,148,123,249,118,
          236,201,240,201,131,192,208,83,228,188,61,53,75,111,126,177,131,
          217,252,118,164,115,113,87,129,104,101,42,11>>],
      [secret |-> KEY2_SECRET, public |-> KEY2_PUBLIC, msg |-> <<32,32>>,
       sig |->
          <<154,34,83,64,0,93,30,155,222,163,36,161,40,198,226,6,125,247,
          154,12,7,233,210,233,243,94,50,52,119,156,8,17,187,8,164,12,70,45,
          91,254,230,139,170,212,240,93,174,82,61,199,14,133,25,179,106,20,
          58,98,211,151,220,248,70,2>>],
      [secret |-> KEY2_SECRET, public |-> KEY2_PUBLIC, msg |-> <<104,104,104>>,
       sig |->
          <<130,209,75,21,202,58,154,135,67,52,9,30,11,112,162,20,131,110,
          200,180,212,132,250,52,174,219,142,205,229,178,75,225,181,184,113,
          94,183,182,242,250,107,111,221,22,32,86,107,186,67,24,80,81,38,
          243,115,211,31,144,54,30,32,233,244,2>>],
      [secret |-> KEY2_SECRET, public |-> KEY2_PUBLIC, msg |-> <<104,104,32>>,
       sig |->
          <<184,44,44,68,178,253,94,74,46,80,114,57,203,197,54,242,201,251,
          159,35,10,73,54,158,209,103,204,43,209,169,73,223,253,154,52,167,
          133,67,58,134,63,229,68,225,249,159,225,95,147,78,152,21,210,71,
          155,67,194,71,130,213,20,186,54,14>>],
      [secret |-> KEY2_SECRET, public |-> KEY2_PUBLIC, msg |-> <<104,32,104>>,
       sig |->
          <<46,74,192,194,139,75,127,222,9,129,220,54,59,213,141,79,196,76,
          45,13,203,187,32,179,169,234,201,169,193,77,10,166,106,33,181,192,
          173,101,132,167,20,133,63,69,64,105,58,114,177,140,87,23,168,150,
          121,222,55,98,219,87,214,170,165,8>>],
      [secret |-> KEY2_SECRET, public |-> KEY2_PUBLIC, msg |-> <<104,32,32>>,
       sig |->
          <<102,171,128,75,16,179,92,233,239,13,71,92,230,101,31,26,80,175,
          22,87,118,251,64,17,70,154,27,154,19,31,109,21,101,171,35,184,29,
          18,167,235,123,204,189,202,38,162,244,197,244,41,141,88,114,156,
          174,251,31,215,175,84,121,194,147,1>>],
      [secret |-> KEY2_SECRET, public |-> KEY2_PUBLIC, msg |-> <<32,104,104>>,
       sig |->
          <<240,191,152,253,14,54,64,249,148,91,97,183,184,243,103,102,226,
          131,118,28,12,168,213,223,250,137,168,59,150,74,196,235,73,216,
          240,61,196,89,166,83,250,196,153,222,163,161,141,100,87,136,16,61,
          251,77,65,68,164,201,245,112,48,78,122,10>>],
      [secret |-> KEY2_SECRET, public |-> KEY2_PUBLIC, msg |-> <<32,104,32>>,
       sig |->
          <<20,116,45,42,190,107,223,253,118,194,105,189,88,117,121,69,23,
          102,57,112,231,195,56,244,86,19,18,248,238,108,23,234,24,199,104,
          80,17,157,170,227,157,168,94,78,177,143,245,86,17,216,212,195,143,
          3,124,226,104,138,116,85,230,151,229,4>>],
      [secret |-> KEY2_SECRET, public |-> KEY2_PUBLIC, msg |-> <<32,32,104>>,
       sig |->
          <<138,44,78,219,71,144,152,84,245,40,153,52,232,122,0,198,23,216,
          200,192,161,253,32,146,136,249,169,138,1,80,171,150,19,185,222,
          127,74,181,8,124,85,120,102,35,233,114,98,216,151,89,130,119,22,
          148,176,73,90,157,120,109,29,207,130,0>>],
      [secret |-> KEY2_SECRET, public |-> KEY2_PUBLIC, msg |-> <<32,32,32>>,
       sig |->
          <<119,35,141,84,48,122,153,231,95,199,185,179,252,76,85,245,58,66,
          120,178,70,199,34,228,43,137,113,126,58,254,114,185,176,250,65,4,
          86,141,201,139,184,229,225,188,176,175,142,189,250,198,82,251,165,
          179,26,28,219,145,25,0,68,89,82,13>>],
      [secret |-> KEY2_SECRET, public |-> KEY2_PUBLIC, msg |-> <<104,101,108,108,111>>,
       sig |->
          <<228,214,117,26,249,49,5,221,73,29,160,126,27,206,11,124,62,124,
          64,167,193,217,216,115,28,188,141,83,199,79,47,240,56,118,222,217,
          96,81,216,198,254,4,143,247,112,118,182,123,139,156,13,156,43,192,
          104,221,98,120,196,164,170,221,44,7>>],
      [secret |-> KEY2_SECRET, public |-> KEY2_PUBLIC, msg |-> <<65>>,
       sig |->
          <<175,180,84,240,11,236,233,121,90,53,71,75,219,202,133,169,180,
          131,83,227,168,211,65,31,246,92,172,98,114,100,98,17,25,127,111,
          172,53,221,24,115,202,116,218,169,52,99,127,55,26,150,11,196,5,20,
          243,114,66,211,85,243,101,159,235,8>>],
      [secret |-> KEY1_SECRET, public |-> KEY2_PUBLIC, msg |-> <<104>>,
       sig |->
          <<48,95,41,97,166,139,26,108,249,107,220,186,85,13,222,91,244,182,
          53,120,13,200,187,9,181,246,79,42,213,20,134,155,142,66,126,123,
          82,245,27,89,240,232,80,215,18,71,47,197,183,98,159,100,234,126,
          151,158,9,199,180,157,226,144,242,6>>],
      [secret |-> KEY1_SECRET, public |-> KEY2_PUBLIC, msg |-> <<104,104>>,
       sig |->
          <<7,192,67,168,122,215,181,120,8,119,140,211,58,96,168,106,58,51,
          75,195,37,63,140,69,10,177,161,137,57,5,205,11,144,174,212,155,
          224,246,4,224,149,170,243,216,48,60,174,251,180,157,238,142,3,20,
          11,239,19,20,161,14,81,252,7,10>>],
      [secret |-> KEY1_SECRET, public |-> KEY2_PUBLIC, msg |-> <<104,32>>,
       sig |->
          <<197,63,233,231,11,41,90,113,156,55,29,100,71,46,33,255,87,186,
          166,216,53,190,25,105,26,156,80,145,226,210,56,93,90,234,214,180,
          220,215,87,243,13,193,199,249,212,190,128,245,16,75,102,206,20,
          204,74,31,106,175,234,53,52,254,54,6>>],
      [secret |-> KEY1_SECRET, public |-> KEY2_PUBLIC, msg |-> <<32,104>>,
       sig |->
          <<97,167,87,41,49,255,213,3,137,18,213,4,13,166,8,175,47,112,128,
          96,212,250,150,220,198,81,130,151,150,48,151,120,171,185,35,212,
          198,172,252,51,85,112,156,240,100,59,126,143,30,151,132,51,246,
          162,5,69,90,68,51,6,185,230,20,3>>],
      [secret |-> KEY1_SECRET, public |-> KEY2_PUBLIC, msg |-> <<104,104,104>>,
       sig |->
          <<239,164,9,215,122,247,96,216,26,16,168,47,239,133,252,85,205,
          174,3,226,48,171,13,179,162,255,115,19,224,61,249,178,230,173,87,
          246,220,0,57,3,20,16,174,195,252,160,190,23,221,77,9,105,10,227,
          30,176,4,170,190,135,131,4,214,3>>],
      [secret |-> KEY1_SECRET, public |-> KEY2_PUBLIC, msg |-> <<104,104,32>>,
       sig |->
          <<31,177,12,120,87,80,139,102,28,131,247,230,186,206,12,129,16,
          200,128,143,187,177,6,54,5,50,30,52,149,196,109,91,25,199,5,152,
          101,162,185,185,185,161,4,145,251,235,146,33,129,212,87,218,182,
          21,123,211,115,9,37,46,15,100,135,2>>],
      [secret |-> KEY1_SECRET, public |-> KEY2_PUBLIC, msg |-> <<104,32,104>>,
       sig |->
          <<198,105,188,43,168,141,82,57,43,146,71,198,15,245,80,228,179,
          218,224,37,100,102,199,85,83,3,225,9,242,52,158,81,100,89,210,59,
          31,172,12,194,115,109,145,170,149,176,16,21,86,201,218,99,36,97,
          157,214,108,193,131,52,118,238,115,12>>],
      [secret |-> KEY1_SECRET, public |-> KEY2_PUBLIC, msg |-> <<104,32,32>>,
       sig |->
          <<3,9,107,178,171,157,252,161,56,218,114,254,25,48,122,112,140,86,
          37,37,55,106,229,149,220,178,28,30,221,79,122,72,199,44,94,89,60,
          110,142,194,224,95,118,240,225,115,177,126,74,251,206,72,129,109,
          186,20,65,135,232,44,193,91,168,2>>],
      [secret |-> KEY1_SECRET, public |-> KEY2_PUBLIC, msg |-> <<32,104,104>>,
       sig |->
          <<75,218,120,226,253,67,248,157,155,49,5,3,189,254,168,51,218,112,
          119,138,212,137,2,10,134,71,31,99,197,29,204,119,172,202,79,233,
          50,228,34,213,121,144,69,34,98,158,238,224,100,20,65,187,104,43,
          243,119,81,227,25,222,252,213,211,12>>],
      [secret |-> KEY1_SECRET, public |-> KEY2_PUBLIC, msg |-> <<32,104,32>>,
       sig |->
          <<235,69,246,230,181,7,231,44,202,198,201,30,37,12,49,174,210,186,
          174,149,224,63,68,23,22,163,45,43,127,178,77,24,193,5,15,145,147,
          185,194,20,42,5,84,23,199,173,127,106,15,25,133,45,140,236,229,
          191,193,184,194,163,89,5,228,2>>],
      [secret |-> KEY1_SECRET, public |-> KEY2_PUBLIC, msg |-> <<32,32,104>>,
       sig |->
          <<77,104,211,166,78,220,200,79,150,219,30,233,41,41,252,33,162,73,
          93,143,117,38,111,56,187,43,4,15,87,178,50,28,152,253,234,141,59,
          31,186,60,52,128,34,219,243,69,54,184,209,164,82,1,115,26,5,86,
          109,240,244,50,192,175,164,1>>]
    }

\* A signature of "h" under the first key pair made with another nonce
\* (r = 12345) than sign_message takes.
OTHER_NONCE_SIGNATURE ==
    <<239,79,98,248,71,151,51,173,135,156,250,206,211,200,154,156,57,221,79,
    199,149,239,46,250,28,62,175,228,215,41,160,129,22,13,216,240,132,63,
    161,223,42,21,134,253,242,103,78,91,13,17,120,228,145,162,86,157,160,
    253,72,153,9,49,190,1>>

PUBKEY_BYTES == 32
SIGNATURE_BYTES == 64
KEYPAIR_LENGTH == 64

\* 32-byte strings that decompress to a curve point: the public keys, the
\* neutral element and the three ids (all of them y coordinates with an x).
CURVE_POINTS ==
    { KEY1_PUBLIC, KEY2_PUBLIC, RFC8032_PUBLIC, <<1>> \o Rep(0, 31),
      SYSTEM_PROGRAM_ID, SPL_TOKEN_ID, SYSVAR_RENT_ID }

\* Whether 32 bytes decompress to a curve point (ed25519_dalek
\* PublicKey::from_bytes).  Tabulated: bytes that are neither in
\* CURVE_POINTS nor OFF_CURVE have no value here.
IsCurvePoint(bytes) ==
    CHOOSE b \in BOOLEAN : \/ b /\ bytes \in CURVE_POINTS
                           \/ ~b /\ bytes = OFF_CURVE

\* Keypair::from_bytes: 64 bytes, the secret then the public key, which must
\* be a curve point.
KeypairFromBytes(bytes) ==
    IF Len(bytes) # KEYPAIR_LENGTH THEN Err("SignatureError")
    ELSE LET public == SubSeq(bytes, PUBKEY_BYTES + 1, KEYPAIR_LENGTH)
         IN  IF ~IsCurvePoint(public) THEN Err("SignatureError")
             ELSE Ok([secret |-> SubSeq(bytes, 1, PUBKEY_BYTES), public |-> public])

\* Keypair::to_bytes
KeypairToBytes(keypair) == keypair.secret \o keypair.public

\* Keypair::sign_message: the deterministic Ed25519 signature, made with the
\* secret key and hashed with the public key of the pair.  Tabulated: a key
\* pair and a message without a row have no value here.
SignMessage(keypair, msg) ==
    (CHOOSE e \in ED25519_SIGNATURES :
        /\ e.secret = keypair.secret
        /\ e.public = keypair.public
        /\ e.msg = msg).sig

\* A byte of the signature with every bit flipped.
FlipByte(sig, i) == [sig EXCEPT ![i] = 255 - @]

\* The rows signed under a key pair whose public key is that of the secret.
ED25519_GENUINE ==
    {e \in ED25519_SIGNATURES :
        <<e.secret, e.public>> \in {<<KEY1_SECRET, KEY1_PUBLIC>>,
                                    <<KEY2_SECRET, KEY2_PUBLIC>>}}

\* The public keys, messages and signatures that verification was computed
\* for, each against each.
VERIFIED ==
    [keys |-> { KEY1_PUBLIC, KEY2_PUBLIC, OFF_CURVE, SYSTEM_PROGRAM_ID,
                SPL_TOKEN_ID, RFC8032_PUBLIC },
     messages |-> {e.msg : e \in ED25519_SIGNATURES},
     signatures |->
        {e.sig : e \in ED25519_SIGNATURES}
        \cup {OTHER_NONCE_SIGNATURE, Rep(0, SIGNATURE_BYTES)}
        \cup {FlipByte(e.sig, i) : e \in ED25519_GENUINE, i \in {1, SIGNATURE_BYTES}}]

\* The triples among them that verify: the signatures of the two key pairs,
\* each for its public key and its message, and the one made with another
\* nonce.
ED25519_VALID ==
    {<<e.public, e.msg, e.sig>> : e \in ED25519_GENUINE}
    \cup {<<KEY1_PUBLIC, <<104>>, OTHER_NONCE_SIGNATURE>>}

\* A verification that does not look at the message.
SignatureVerify_any_message(sig, pubkey_bytes, msg) ==
    \E v \in ED25519_VALID : v[1] = pubkey_bytes /\ v[3] = sig

\* Signature::verify(pubkey_bytes, message_bytes): false, never an error, for
\* a key that is no curve point or a signature that does not match.
\* Tabulated: a triple outside the keys, messages and signatures above has
\* no value here.
SignatureVerify(sig, pubkey_bytes, msg) ==
    CHOOSE b \in BOOLEAN :
        /\ pubkey_bytes \in VERIFIED.keys
        /\ msg \in VERIFIED.messages
        /\ sig \in VERIFIED.signatures
        /\ b = (<<pubkey_bytes, msg, sig>> \in ED25519_VALID)

----------------------------------------------------------------------------
(* Addresses (solana_sdk::pubkey::Pubkey) *)

MAX_BASE58_LEN == 44

\* <Pubkey as FromStr>::from_str
ParsePubkey(s) ==
    IF Len(s) > MAX_BASE58_LEN THEN Err("WrongSize")
    ELSE LET r == Base58Decode(s)
         IN  IF ~r.ok THEN Err("Invalid")
             ELSE IF Len(r.val) # PUBKEY_BYTES THEN Err("WrongSize")
             ELSE r

\* <Pubkey as Display>::to_string
PubkeyToString(pubkey) == Base58Encode(pubkey)

\* spl_associated_token_account::get_associated_token_address (an external
\* library: SHA-256 of the wallet, the token program, the mint and a bump
\* seed, searched for an address off the curve), tabulated for the addresses
\* of the model.
ASSOCIATED_TOKEN_ADDRESSES ==
    {
      [wallet |-> KEY1_PUBLIC, mint |-> KEY1_PUBLIC,
       address |->
          <<187,19,173,34,155,88,199,218,44,99,105,243,15,121,7,170,249,133,
          59,215,122,209,19,147,189,52,219,0,49,3,178,12>>],
      [wallet |-> KEY1_PUBLIC, mint |-> KEY2_PUBLIC,
       address |->
          <<175,112,1,20,143,14,87,159,235,245,64,97,228,157,252,107,87,58,
          146,67,15,165,66,120,233,121,189,8,233,116,66,34>>],
      [wallet |-> KEY2_PUBLIC, mint |-> KEY1_PUBLIC,
       address |->
          <<112,83,0,68,103,188,231,37,119,203,112,161,49,73,143,71,108,149,
          93,126,206,233,70,3,83,169,141,33,169,214,151,122>>],
      [wallet |-> KEY2_PUBLIC, mint |-> KEY2_PUBLIC,
       address |->
          <<231,199,205,252,93,63,112,128,82,95,153,77,241,50,206,232,210,
          24,93,156,61,8,251,74,246,184,123,196,209,198,162,154>>]
    }

get_associated_token_address(wallet, mint) ==
    (CHOOSE e \in ASSOCIATED_TOKEN_ADDRESSES :
        e.wallet = wallet /\ e.mint = mint).address

----------------------------------------------------------------------------
(* Instructions (solana_sdk::system_instruction, spl_token::instruction) *)

\* AccountMeta::new(pubkey, is_signer) and AccountMeta::new_readonly
AccountMetaNew(pubkey, is_signer) ==
    [pubkey |-> pubkey, is_signer |-> is_signer, is_writable |-> TRUE]
AccountMetaReadonly(pubkey, is_signer) ==
    [pubkey |-> pubkey, is_signer |-> is_signer, is_writable |-> FALSE]

\* bincode of a u32: 4 bytes, least significant first.
U32LE(n) == NatToLE(n, 4)

\* system_instruction::transfer: SystemInstruction::Transfer is variant 2,
\* bincode writes the variant as a u32 and the lamports as a u64.
\* A transfer with the recipient before the sender.
SystemTransfer_swapped(from_pubkey, to_pubkey, lamports) ==
    [program_id |-> SYSTEM_PROGRAM_ID,
     accounts |-> << AccountMetaNew(to_pubkey, FALSE),
                     AccountMetaNew(from_pubkey, TRUE) >>,
     data |-> U32LE(2) \o lamports]

SystemTransfer(from_pubkey, to_pubkey, lamports) ==
    [program_id |-> SYSTEM_PROGRAM_ID,
     accounts |-> << AccountMetaNew(from_pubkey, TRUE),
                     AccountMetaNew(to_pubkey, FALSE) >>,
     data |-> U32LE(2) \o lamports]

\* spl_token::instruction::transfer with no multisig signers: tag 3.
TokenTransfer(source, destination, authority, amount) ==
    [program_id |-> SPL_TOKEN_ID,
     accounts |-> << AccountMetaNew(source, FALSE),
                     AccountMetaNew(destination, FALSE),
                     AccountMetaReadonly(authority, TRUE) >>,
     data |-> <<3>> \o amount]

\* spl_token::instruction::initialize_mint with a freeze authority: tag 0,
\* the decimals, the mint authority, then COption::Some as 1 and the key.
TokenInitializeMint(mint, mint_authority, freeze_authority, decimals) ==
    [program_id |-> SPL_TOKEN_ID,
     accounts |-> << AccountMetaNew(mint, FALSE),
                     AccountMetaReadonly(SYSVAR_RENT_ID, FALSE) >>,
     data |-> <<0, decimals>> \o mint_authority \o <<1>> \o freeze_authority]

\* spl_token::instruction::mint_to with no multisig signers: tag 7.
TokenMintTo(mint, account, owner, amount) ==
    [program_id |-> SPL_TOKEN_ID,
     accounts |-> << AccountMetaNew(mint, FALSE),
                     AccountMetaNew(account, FALSE),
                     AccountMetaReadonly(owner, TRUE) >>,
     data |-> <<7>> \o amount]

----------------------------------------------------------------------------
(* SolanaError (utils/errors.rs) *)

ClientError(e) == [kind |-> "ClientError", detail |-> e]
SdkError(d) == [kind |-> "SdkError", detail |-> d]
InvalidInput(d) == [kind |-> "InvalidInput", detail |-> d]
InsufficientFunds == [kind |-> "InsufficientFunds"]
TransactionFailed(d) == [kind |-> "TransactionFailed", detail |-> d]

\* The handlers of send.rs, token.rs and message.rs return
\* SolanaError::MissingFields, a variant the enum of utils/errors.rs does not
\* declare; its message and its status are those the specification gives a
\* missing required field.
MissingFields == [kind |-> "MissingFields"]
MissingFieldsMessage == "Missing required fields"
MissingFieldsStatus == 400

\* #[error("...")]: the Display text of the error.
ErrorToString(e) ==
    CASE e.kind = "ClientError" -> "Client error: " \o e.detail
      [] e.kind = "SdkError" -> "SDK error: " \o e.detail
      [] e.kind = "InvalidInput" -> "Invalid input: " \o e.detail
      [] e.kind = "InsufficientFunds" -> "Insufficient funds"
      [] e.kind = "TransactionFailed" -> "Transaction failed: " \o e.detail
      [] e.kind = "MissingFields" -> MissingFieldsMessage

BAD_GATEWAY == 502
INTERNAL_SERVER_ERROR == 500
BAD_REQUEST == 400
METHOD_NOT_ALLOWED == 405
NOT_FOUND == 404
OK == 200

ErrorStatus(e) ==
    CASE e.kind = "ClientError" -> BAD_GATEWAY
      [] e.kind = "SdkError" -> INTERNAL_SERVER_ERROR
      [] e.kind = "InvalidInput" -> BAD_REQUEST
      [] e.kind = "InsufficientFunds" -> BAD_REQUEST
      [] e.kind = "TransactionFailed" -> BAD_REQUEST
      [] e.kind = "MissingFields" -> MissingFieldsStatus

\* <SolanaError as IntoResponse>::into_response
ErrorIntoResponse(e) ==
    [status |-> ErrorStatus(e),
     body |-> [error |-> ErrorToString(e), status |-> ErrorStatus(e)]]

\* <Result<Json<T>, SolanaError> as IntoResponse>::into_response
IntoResponse(result) ==
    IF result.ok THEN [status |-> OK, body |-> result.val]
    ELSE ErrorIntoResponse(result.err)

\* json!({"success": true, "data": response})
SuccessEnvelope(data) == [success |-> TRUE, data |-> data]

----------------------------------------------------------------------------
(* send.rs *)

\* Validate lamports amount (reasonable limits): 1 and 100 * 10^9.
MIN_LAMPORTS == U64(1)
MAX_LAMPORTS == U64MulSat(U64(100000), 1000000)

\* Option<u64>.filter(|&a| a > 0)
Positive(opt) == IF opt.some /\ U64Gt(opt.val, U64(0)) THEN opt ELSE None

SendSolResponse(instruction) ==
    [program_id |-> PubkeyToString(instruction.program_id),
     accounts |-> [i \in 1..Len(instruction.accounts) |->
                      PubkeyToString(instruction.accounts[i].pubkey)],
     instruction_data |-> Base64Encode(instruction.data)]

send_sol(payload) ==
    LET from == NonBlank(payload.from)
        to == NonBlank(payload.to)
        lamports == Positive(payload.lamports)
    IN  IF ~from.some THEN Err(MissingFields)
        ELSE IF ~to.some THEN Err(MissingFields)
        ELSE IF ~lamports.some THEN Err(MissingFields)
        ELSE IF U64Lt(lamports.val, MIN_LAMPORTS)
            THEN Err(InvalidInput("Amount must be at least 1 lamport"))
        ELSE IF U64Gt(lamports.val, MAX_LAMPORTS)
            THEN Err(InvalidInput("Amount exceeds maximum limit (100 SOL)"))
        ELSE LET from_pubkey == ParsePubkey(from.val)
                 to_pubkey == ParsePubkey(to.val)
             IN  IF ~from_pubkey.ok
                     THEN Err(InvalidInput("Invalid sender address"))
                 ELSE IF ~to_pubkey.ok
                     THEN Err(InvalidInput("Invalid recipient address"))
                 ELSE IF from_pubkey.val = to_pubkey.val
                     THEN Err(InvalidInput("Sender and recipient cannot be the same"))
                 ELSE Ok(SuccessEnvelope(SendSolResponse(
                         SystemTransfer(from_pubkey.val, to_pubkey.val, lamports.val))))

\* AccountMetaTokenResponse: pubkey and isSigner.
SendTokenResponse(instruction) ==
    [program_id |-> PubkeyToString(instruction.program_id),
     accounts |-> [i \in 1..Len(instruction.accounts) |->
                      [pubkey |-> PubkeyToString(instruction.accounts[i].pubkey),
                       isSigner |-> instruction.accounts[i].is_signer]],
     instruction_data |-> Base64Encode(instruction.data)]

\* send_token where the tokens go to the destination wallet itself, not to
\* its associated token account.
send_token_to_wallet(payload) ==
    LET destination == NonBlank(payload.destination)
        mint == NonBlank(payload.mint)
        owner == NonBlank(payload.owner)
        amount == Positive(payload.amount)
    IN  IF ~destination.some THEN Err(MissingFields)
        ELSE IF ~mint.some THEN Err(MissingFields)
        ELSE IF ~owner.some THEN Err(MissingFields)
        ELSE IF ~amount.some THEN Err(MissingFields)
        ELSE IF U64Gt(amount.val, U64Half(U64_MAX))
            THEN Err(InvalidInput("Token amount is too large"))
        ELSE LET destination_pubkey == ParsePubkey(destination.val)
                 mint_pubkey == ParsePubkey(mint.val)
                 owner_pubkey == ParsePubkey(owner.val)
             IN  IF ~destination_pubkey.ok
                     THEN Err(InvalidInput("Invalid destination wallet address"))
                 ELSE IF ~mint_pubkey.ok
                     THEN Err(InvalidInput("Invalid mint address"))
                 ELSE IF ~owner_pubkey.ok
                     THEN Err(InvalidInput("Invalid owner address"))
                 ELSE IF owner_pubkey.val = destination_pubkey.val
                     THEN Err(InvalidInput("Token owner and destination cannot be the same"))
                 ELSE LET source_ata ==
                              get_associated_token_address(owner_pubkey.val, mint_pubkey.val)
                      IN  Ok(SuccessEnvelope(SendTokenResponse(
                              TokenTransfer(source_ata, destination_pubkey.val,
                                            owner_pubkey.val, amount.val))))

\* spl_token's transfer fails only for a token program id that is not
\* spl_token::id(), which is the one passed: the TokenError branch is dead.
send_token(payload) ==
    LET destination == NonBlank(payload.destination)
        mint == NonBlank(payload.mint)
        owner == NonBlank(payload.owner)
        amount == Positive(payload.amount)
    IN  IF ~destination.some THEN Err(MissingFields)
        ELSE IF ~mint.some THEN Err(MissingFields)
        ELSE IF ~owner.some THEN Err(MissingFields)
        ELSE IF ~amount.some THEN Err(MissingFields)
        ELSE IF U64Gt(amount.val, U64Half(U64_MAX))
            THEN Err(InvalidInput("Token amount is too large"))
        ELSE LET destination_pubkey == ParsePubkey(destination.val)
                 mint_pubkey == ParsePubkey(mint.val)
                 owner_pubkey == ParsePubkey(owner.val)
             IN  IF ~destination_pubkey.ok
                     THEN Err(InvalidInput("Invalid destination wallet address"))
                 ELSE IF ~mint_pubkey.ok
                     THEN Err(InvalidInput("Invalid mint address"))
                 ELSE IF ~owner_pubkey.ok
                     THEN Err(InvalidInput("Invalid owner address"))
                 ELSE IF owner_pubkey.val = destination_pubkey.val
                     THEN Err(InvalidInput("Token owner and destination cannot be the same"))
                 ELSE LET source_ata ==
                              get_associated_token_address(owner_pubkey.val, mint_pubkey.val)
                          destination_ata ==
                              get_associated_token_address(destination_pubkey.val, mint_pubkey.val)
                      IN  Ok(SuccessEnvelope(SendTokenResponse(
                              TokenTransfer(source_ata, destination_ata,
                                            owner_pubkey.val, amount.val))))

----------------------------------------------------------------------------
(* Steps of a handler: it ends with a Result, or it waits for the answer   *)
(* of the ledger client to the call it made, keeping its local variables.  *)

Done(result) == [pc |-> "done", result |-> Some(result), locals |-> <<>>]
Await(call, locals) == [pc |-> call, result |-> None, locals |-> locals]

----------------------------------------------------------------------------
(* token.rs *)

MAX_DECIMALS == 9

InstructionResponse(instruction) ==
    [program_id |-> PubkeyToString(instruction.program_id),
     accounts |-> [i \in 1..Len(instruction.accounts) |->
                      [pubkey |-> PubkeyToString(instruction.accounts[i].pubkey),
                       is_signer |-> instruction.accounts[i].is_signer,
                       is_writable |-> instruction.accounts[i].is_writable]],
     instruction_data |-> Base64Encode(instruction.data)]

\* create_token where decimals of 0 count as a missing field, like an amount.
create_token_zero_missing(payload) ==
    LET mint_authority == NonBlank(payload.mintAuthority)
        mint == NonBlank(payload.mint)
        decimals == IF payload.decimals.some /\ payload.decimals.val > 0
                    THEN payload.decimals ELSE None
    IN  IF ~mint_authority.some THEN Err(MissingFields)
        ELSE IF ~mint.some THEN Err(MissingFields)
        ELSE IF ~decimals.some THEN Err(MissingFields)
        ELSE IF decimals.val > MAX_DECIMALS
            THEN Err(InvalidInput("Decimals must be between 0 and 9"))
        ELSE LET mint_authority_pubkey == ParsePubkey(mint_authority.val)
                 mint_pubkey == ParsePubkey(mint.val)
             IN  IF ~mint_authority_pubkey.ok
                     THEN Err(InvalidInput("Invalid mint authority public key"))
                 ELSE IF ~mint_pubkey.ok
                     THEN Err(InvalidInput("Invalid mint public key"))
                 ELSE IF mint_pubkey.val = mint_authority_pubkey.val
                     THEN Err(InvalidInput("Mint account and mint authority cannot be the same"))
                 ELSE Ok(SuccessEnvelope(InstructionResponse(
                         TokenInitializeMint(mint_pubkey.val, mint_authority_pubkey.val,
                                             mint_authority_pubkey.val, decimals.val))))

\* initialize_mint fails only for a token program id that is not
\* spl_token::id(): the TokenError branch is dead.
create_token(payload) ==
    LET mint_authority == NonBlank(payload.mintAuthority)
        mint == NonBlank(payload.mint)
        decimals == payload.decimals
    IN  IF ~mint_authority.some THEN Err(MissingFields)
        ELSE IF ~mint.some THEN Err(MissingFields)
        ELSE IF ~decimals.some THEN Err(MissingFields)
        ELSE IF decimals.val > MAX_DECIMALS
            THEN Err(InvalidInput("Decimals must be between 0 and 9"))
        ELSE LET mint_authority_pubkey == ParsePubkey(mint_authority.val)
                 mint_pubkey == ParsePubkey(mint.val)
             IN  IF ~mint_authority_pubkey.ok
                     THEN Err(InvalidInput("Invalid mint authority public key"))
                 ELSE IF ~mint_pubkey.ok
                     THEN Err(InvalidInput("Invalid mint public key"))
                 ELSE IF mint_pubkey.val = mint_authority_pubkey.val
                     THEN Err(InvalidInput("Mint account and mint authority cannot be the same"))
                 ELSE Ok(SuccessEnvelope(InstructionResponse(
                         TokenInitializeMint(mint_pubkey.val, mint_authority_pubkey.val,
                                             mint_authority_pubkey.val, decimals.val))))

\* mint_token up to its first ledger call: the presence checks, then the
\* three addresses.
mint_token(payload) ==
    LET mint == NonBlank(payload.mint)
        destination == NonBlank(payload.destination)
        authority == NonBlank(payload.authority)
        amount == Positive(payload.amount)
    IN  IF ~mint.some THEN Done(Err(MissingFields))
        ELSE IF ~destination.some THEN Done(Err(MissingFields))
        ELSE IF ~authority.some THEN Done(Err(MissingFields))
        ELSE IF ~amount.some THEN Done(Err(MissingFields))
        ELSE LET mint_pubkey == ParsePubkey(mint.val)
                 destination_wallet_pubkey == ParsePubkey(destination.val)
                 authority_pubkey == ParsePubkey(authority.val)
             IN  IF ~mint_pubkey.ok
                     THEN Done(Err(InvalidInput("Invalid mint address")))
                 ELSE IF ~destination_wallet_pubkey.ok
                     THEN Done(Err(InvalidInput("Invalid destination wallet address")))
                 ELSE IF ~authority_pubkey.ok
                     THEN Done(Err(InvalidInput("Invalid authority address")))
                 ELSE Await("mint_token:get_account",
                            [mint_pubkey |-> mint_pubkey.val,
                             destination_wallet_pubkey |-> destination_wallet_pubkey.val,
                             authority_pubkey |-> authority_pubkey.val,
                             amount |-> amount.val])

\* client.get_account(&mint_pubkey) has answered: the mint must exist and be
\* owned by the token program; then the two associated addresses are derived
\* and the authority's token balance is asked for.
mint_token_got_account(locals, answer) ==
    IF ~answer.ok
        THEN Done(Err(InvalidInput("Mint account does not exist")))
    ELSE IF answer.val.owner # SPL_TOKEN_ID
        THEN Done(Err(InvalidInput("Invalid mint account - not owned by SPL Token program")))
    ELSE Await("mint_token:authority_balance",
               [mint_pubkey |-> locals.mint_pubkey,
                authority_pubkey |-> locals.authority_pubkey,
                amount |-> locals.amount,
                authority_ata |->
                    get_associated_token_address(locals.authority_pubkey, locals.mint_pubkey),
                destination_ata |->
                    get_associated_token_address(locals.destination_wallet_pubkey,
                                                 locals.mint_pubkey)])

\* client.get_token_account_balance(&authority_ata) has answered: either
\* answer is only logged, and the destination's balance is asked for.
mint_token_got_authority_balance(locals, answer) ==
    Await("mint_token:destination_balance", locals)

\* client.get_token_account_balance(&destination_ata) has answered: either
\* answer is only logged, and the instruction is built.
mint_token_got_destination_balance(locals, answer) ==
    Done(Ok(SuccessEnvelope(InstructionResponse(
        TokenMintTo(locals.mint_pubkey, locals.destination_ata,
                    locals.authority_pubkey, locals.amount)))))

----------------------------------------------------------------------------
(* message.rs *)

SignMessageResponse(signature, keypair, message) ==
    [signature |-> Base64Encode(signature),
     public_key |-> PubkeyToString(keypair.public),
     message |-> message]

sign_message(payload) ==
    LET message == NonBlank(payload.message)
        secret == NonBlank(payload.secret)
    IN  IF ~message.some THEN Err(MissingFields)
        ELSE IF ~secret.some THEN Err(MissingFields)
        ELSE LET secret_bytes == Base58Decode(secret.val)
             IN  IF ~secret_bytes.ok
                     THEN Err(InvalidInput("Invalid secret key format"))
                 ELSE IF Len(secret_bytes.val) # KEYPAIR_LENGTH
                     THEN Err(InvalidInput("Invalid secret key length"))
                 ELSE LET keypair == KeypairFromBytes(secret_bytes.val)
                      IN  IF ~keypair.ok
                              THEN Err(InvalidInput("Invalid secret key"))
                          ELSE Ok(SuccessEnvelope(SignMessageResponse(
                                  SignMessage(keypair.val, AsBytes(message.val)),
                                  keypair.val, message.val)))

VerifyMessageResponse(valid, message, pubkey_str) ==
    [valid |-> valid, message |-> message, pubkey |-> pubkey_str]

\* verify_message where a signature of another length than 64 bytes is
\* answered as one that does not verify.
verify_message_unsized(payload) ==
    LET message == NonBlank(payload.message)
        signature_str == NonBlank(payload.signature)
        pubkey_str == NonBlank(payload.pubkey)
    IN  IF ~message.some THEN Err(MissingFields)
        ELSE IF ~signature_str.some THEN Err(MissingFields)
        ELSE IF ~pubkey_str.some THEN Err(MissingFields)
        ELSE LET pubkey == ParsePubkey(pubkey_str.val)
             IN  IF ~pubkey.ok
                     THEN Err(InvalidInput("Invalid public key format"))
                 ELSE LET signature_bytes == Base64Decode(signature_str.val)
                      IN  IF ~signature_bytes.ok
                              THEN Err(InvalidInput("Invalid signature format"))
                          ELSE IF Len(signature_bytes.val) # SIGNATURE_BYTES
                              THEN Ok(SuccessEnvelope(VerifyMessageResponse(
                                      FALSE, message.val, pubkey_str.val)))
                          ELSE Ok(SuccessEnvelope(VerifyMessageResponse(
                                  SignatureVerify(signature_bytes.val, pubkey.val,
                                                  AsBytes(message.val)),
                                  message.val, pubkey_str.val)))

\* Signature::try_from fails only for a slice that is not 64 bytes long, which
\* the length check before it excludes.
verify_message(payload) ==
    LET message == NonBlank(payload.message)
        signature_str == NonBlank(payload.signature)
        pubkey_str == NonBlank(payload.pubkey)
    IN  IF ~message.some THEN Err(MissingFields)
        ELSE IF ~signature_str.some THEN Err(MissingFields)
        ELSE IF ~pubkey_str.some THEN Err(MissingFields)
        ELSE LET pubkey == ParsePubkey(pubkey_str.val)
             IN  IF ~pubkey.ok
                     THEN Err(InvalidInput("Invalid public key format"))
                 ELSE LET signature_bytes == Base64Decode(signature_str.val)
                      IN  IF ~signature_bytes.ok
                              THEN Err(InvalidInput("Invalid signature format"))
                          ELSE IF Len(signature_bytes.val) # SIGNATURE_BYTES
                              THEN Err(InvalidInput("Invalid signature length"))
                          ELSE Ok(SuccessEnvelope(VerifyMessageResponse(
                                  SignatureVerify(signature_bytes.val, pubkey.val,
                                                  AsBytes(message.val)),
                                  message.val, pubkey_str.val)))

----------------------------------------------------------------------------
(* keypair.rs and account.rs: Keypair::new() is the keypair the random      *)
(* generator gave.                                                         *)

generate_keypair(keypair) ==
    Ok(SuccessEnvelope(
        [pubkey |-> PubkeyToString(keypair.public),
         secret |-> Base58Encode(KeypairToBytes(keypair))]))

create_account(payload, keypair) ==
    Ok([public_key |-> PubkeyToString(keypair.public),
        private_key |-> IF payload.save_private_key
                        THEN Some(Base64Encode(KeypairToBytes(keypair)))
                        ELSE None,
        message |-> "Account created successfully. Note: This is a new keypair, it needs to be funded before use."])

\* get_account_info up to its ledger call.
get_account_info(pubkey_str) ==
    LET pubkey == ParsePubkey(pubkey_str)
    IN  IF ~pubkey.ok THEN Done(Err(InvalidInput("Invalid public key format")))
        ELSE Await("get_account_info:get_account", [pubkey |-> pubkey.val])

----------------------------------------------------------------------------
(* The log.  The handlers write to it with info!, and the subscriber main  *)
(* sets writes every line to the standard output, where it stays.  A line  *)
(* is the format of its info! and the arguments, each as the text its      *)
(* Display gives; what the subscriber puts before it (time, level, span)   *)
(* is no part of it.                                                       *)

LogLine(format, args) == [format |-> format, args |-> args]

\* Display of a u64, and serde_json's number of it: its decimal digits.
U64ToString(a) ==
    LET decimal == <<"0", "1", "2", "3", "4", "5", "6", "7", "8", "9">>
        digits == Reverse(RadixDigits(Reverse(a), 1, Len(a), <<>>, 256, 10))
    IN  IF digits = <<>> THEN <<"0">>
        ELSE [i \in 1..Len(digits) |-> decimal[digits[i] + 1]]

\* Display of `lamports as f64 / 1_000_000_000.0`: the shortest decimal that
\* reads back as the quotient, without an exponent.  For the lamports that
\* reach it (MAX_LAMPORTS at most, 12 digits) that is the decimal of
\* lamports / 10^9 itself, the zeros at its end dropped: a decimal of at most
\* 15 digits is the shortest one of the f64 next to it.
LamportsAsSolToString(lamports) ==
    LET digits == U64ToString(lamports)
        padded == Rep("0", 10 - Len(digits)) \o digits
        whole == SubSeq(padded, 1, Len(padded) - 9)
        fraction == SubSeq(padded, Len(padded) - 8, Len(padded))
        kept == Len(fraction) - LeadingCount(Reverse(fraction), "0")
    IN  IF kept = 0 THEN whole ELSE whole \o <<".">> \o SubSeq(fraction, 1, kept)

\* Display of a bool
BoolToString(b) == IF b THEN <<"t", "r", "u", "e">> ELSE <<"f", "a", "l", "s", "e">>

\* The control characters below U+0020 that JSON has no short escape for.
CONTROL_CHARACTERS ==
    {row[1] : row \in {r \in NAMED_CHARACTERS : r[2] < 32}}
    \ {"U+0008", "\t", "\n", "\f", "\r"}

\* serde_json's escape of a character of a string: the quote, the backslash
\* and every control character below U+0020, by its short escape where it
\* has one and by its code point in hexadecimal otherwise.
JsonEscape(c) ==
    LET hex == <<"0", "1", "2", "3", "4", "5", "6", "7", "8", "9",
                 "a", "b", "c", "d", "e", "f">>
    IN  CASE c = "\"" -> <<"\\", "\"">>
          [] c = "\\" -> <<"\\", "\\">>
          [] c = "U+0008" -> <<"\\", "b">>
          [] c = "\t" -> <<"\\", "t">>
          [] c = "\n" -> <<"\\", "n">>
          [] c = "\f" -> <<"\\", "f">>
          [] c = "\r" -> <<"\\", "r">>
          [] c \in CONTROL_CHARACTERS ->
                <<"\\", "u", "0", "0", hex[(CodePoint(c) \div 16) + 1],
                  hex[(CodePoint(c) % 16) + 1]>>
          [] OTHER -> <<c>>

RECURSIVE JsonEscaped(_)
JsonEscaped(s) ==
    IF s = <<>> THEN <<>> ELSE JsonEscape(Head(s)) \o JsonEscaped(Tail(s))

\* serde_json::to_string of a String
JsonString(s) == <<"\"">> \o JsonEscaped(s) \o <<"\"">>

\* serde_json::to_string of an Option<String>
JsonOption(opt) == IF opt.some THEN JsonString(opt.val) ELSE <<"n", "u", "l", "l">>

\* serde_json::to_string of an Option<u64> or an Option<u8>
JsonNumber(opt) == IF opt.some THEN U64ToString(opt.val) ELSE <<"n", "u", "l", "l">>

\* serde_json::to_string of a struct that derives Serialize: its fields, each
\* a name and its value, in the order of their declaration.
RECURSIVE JsonFields(_)
JsonFields(fields) ==
    IF fields = <<>> THEN <<>>
    ELSE JsonString(Head(fields)[1]) \o <<":">> \o Head(fields)[2]
         \o (IF Tail(fields) = <<>> THEN <<>> ELSE <<",">> \o JsonFields(Tail(fields)))

JsonObject(fields) == <<"{">> \o JsonFields(fields) \o <<"}">>

\* serde_json::to_string(&payload) of a SendSolRequest.
SendSolRequestToJson(payload) ==
    JsonObject(<<
        <<<<"f", "r", "o", "m">>,
          JsonOption(payload.from)>>,
        <<<<"t", "o">>,
          JsonOption(payload.to)>>,
        <<<<"l", "a", "m", "p", "o", "r", "t", "s">>,
          JsonNumber(payload.lamports)>> >>)

\* serde_json::to_string(&payload) of a SendTokenRequest.
SendTokenRequestToJson(payload) ==
    JsonObject(<<
        <<<<"d", "e", "s", "t", "i", "n", "a", "t", "i", "o", "n">>,
          JsonOption(payload.destination)>>,
        <<<<"m", "i", "n", "t">>,
          JsonOption(payload.mint)>>,
        <<<<"o", "w", "n", "e", "r">>,
          JsonOption(payload.owner)>>,
        <<<<"a", "m", "o", "u", "n", "t">>,
          JsonNumber(payload.amount)>> >>)

\* serde_json::to_string(&payload) of a CreateTokenRequest.
CreateTokenRequestToJson(payload) ==
    JsonObject(<<
        <<<<"m", "i", "n", "t", "A", "u", "t", "h", "o", "r", "i", "t", "y">>,
          JsonOption(payload.mintAuthority)>>,
        <<<<"m", "i", "n", "t">>,
          JsonOption(payload.mint)>>,
        <<<<"d", "e", "c", "i", "m", "a", "l", "s">>,
          JsonNumber(IF payload.decimals.some THEN Some(U64(payload.decimals.val)) ELSE None)>> >>)

\* serde_json::to_string(&payload) of a MintTokenRequest.
MintTokenRequestToJson(payload) ==
    JsonObject(<<
        <<<<"m", "i", "n", "t">>,
          JsonOption(payload.mint)>>,
        <<<<"d", "e", "s", "t", "i", "n", "a", "t", "i", "o", "n">>,
          JsonOption(payload.destination)>>,
        <<<<"a", "u", "t", "h", "o", "r", "i", "t", "y">>,
          JsonOption(payload.authority)>>,
        <<<<"a", "m", "o", "u", "n", "t">>,
          JsonNumber(payload.amount)>> >>)

\* serde_json::to_string(&payload) of a SignMessageRequest.
SignMessageRequestToJson(payload) ==
    JsonObject(<<
        <<<<"m", "e", "s", "s", "a", "g", "e">>,
          JsonOption(payload.message)>>,
        <<<<"s", "e", "c", "r", "e", "t">>,
          JsonOption(payload.secret)>> >>)

\* serde_json::to_string(&payload) of a VerifyMessageRequest.
VerifyMessageRequestToJson(payload) ==
    JsonObject(<<
        <<<<"m", "e", "s", "s", "a", "g", "e">>,
          JsonOption(payload.message)>>,
        <<<<"s", "i", "g", "n", "a", "t", "u", "r", "e">>,
          JsonOption(payload.signature)>>,
        <<<<"p", "u", "b", "k", "e", "y">>,
          JsonOption(payload.pubkey)>> >>)

\* The lines generate_keypair writes.
generate_keypair_log ==
    << LogLine("POST /keypair", <<>>), LogLine("Response: 200", <<>>) >>

\* The line handle_404 writes.
handle_404_log == << LogLine("Response: 400 - Endpoint not found", <<>>) >>

\* The lines send_sol writes: the request, whatever it is, and two more
\* lines once the request is found valid (nothing fails after that).
send_sol_log(payload) ==
    LET sent == send_sol(payload)
        from_pubkey == ParsePubkey(payload.from.val).val
        to_pubkey == ParsePubkey(payload.to.val).val
    IN  << LogLine("POST /send/sol - Request: {}", <<SendSolRequestToJson(payload)>>) >>
        \o IF sent.ok
           THEN << LogLine("Creating SOL transfer: {} lamports ({} SOL) from {} to {}",
                           << U64ToString(payload.lamports.val),
                              LamportsAsSolToString(payload.lamports.val),
                              PubkeyToString(from_pubkey),
                              PubkeyToString(to_pubkey) >>),
                   LogLine("Response: 200 - SOL transfer instruction created successfully",
                           <<>>) >>
           ELSE <<>>

\* The lines send_token writes.
send_token_log(payload) ==
    LET sent == send_token(payload)
        destination_pubkey == ParsePubkey(payload.destination.val).val
        mint_pubkey == ParsePubkey(payload.mint.val).val
        owner_pubkey == ParsePubkey(payload.owner.val).val
        source_ata == get_associated_token_address(owner_pubkey, mint_pubkey)
        destination_ata == get_associated_token_address(destination_pubkey, mint_pubkey)
    IN  << LogLine("POST /send/token - Request: {}", <<SendTokenRequestToJson(payload)>>) >>
        \o IF sent.ok
           THEN << LogLine("Creating token transfer: {} tokens of mint {} from owner {} (ATA: {}) to destination {} (ATA: {})",
                           << U64ToString(payload.amount.val),
                              PubkeyToString(mint_pubkey),
                              PubkeyToString(owner_pubkey),
                              PubkeyToString(source_ata),
                              PubkeyToString(destination_pubkey),
                              PubkeyToString(destination_ata) >>),
                   LogLine("Response: 200 - Token transfer instruction created successfully",
                           <<>>) >>
           ELSE <<>>

\* The lines create_token writes.
create_token_log(payload) ==
    LET created == create_token(payload)
        mint_authority_pubkey == ParsePubkey(payload.mintAuthority.val).val
        mint_pubkey == ParsePubkey(payload.mint.val).val
        authority_ata == get_associated_token_address(mint_authority_pubkey, mint_pubkey)
    IN  << LogLine("POST /token/create - Request: {}",
                   <<CreateTokenRequestToJson(payload)>>) >>
        \o IF created.ok
           THEN << LogLine("Creating mint: {} with authority: {} (Authority's ATA would be: {})",
                           << PubkeyToString(mint_pubkey),
                              PubkeyToString(mint_authority_pubkey),
                              PubkeyToString(authority_ata) >>),
                   LogLine("Response: 200 - Token mint creation instruction generated successfully",
                           <<>>) >>
           ELSE <<>>

\* The line mint_token writes before its first ledger call.
mint_token_log(payload) ==
    << LogLine("POST /token/mint - Request: {}", <<MintTokenRequestToJson(payload)>>) >>

\* The line mint_token writes once the mint account is found to be one of
\* the token program.
mint_token_got_account_log(locals, answer) ==
    IF mint_token_got_account(locals, answer).pc = "done" THEN <<>>
    ELSE << LogLine("Authority: {} (ATA: {}), Destination: {} (ATA: {})",
                    << PubkeyToString(locals.authority_pubkey),
                       PubkeyToString(get_associated_token_address(
                           locals.authority_pubkey, locals.mint_pubkey)),
                       PubkeyToString(locals.destination_wallet_pubkey),
                       PubkeyToString(get_associated_token_address(
                           locals.destination_wallet_pubkey, locals.mint_pubkey)) >>) >>

\* The line mint_token writes for the answer about the authority's account.
mint_token_got_authority_balance_log(locals, answer) ==
    IF answer.ok
    THEN << LogLine("Authority ATA exists with balance: {} tokens - Authority is properly set up",
                    <<answer.val.amount>>) >>
    ELSE << LogLine("Authority ATA does not exist yet - this is normal for new mint authorities",
                    <<>>) >>

\* The lines mint_token writes for the answer about the destination's
\* account, and to its end.
mint_token_got_destination_balance_log(locals, answer) ==
    (IF answer.ok
     THEN << LogLine("Destination ATA exists with current balance: {} tokens",
                     <<answer.val.amount>>) >>
     ELSE << LogLine("Destination ATA does not exist - it will need to be created before minting",
                     <<>>) >>)
    \o << LogLine("Minting {} tokens from mint {} to destination ATA: {}",
                  << U64ToString(locals.amount),
                     PubkeyToString(locals.mint_pubkey),
                     PubkeyToString(locals.destination_ata) >>),
          LogLine("Response: 200 - Authority validation completed and mint instruction created successfully",
                  <<>>) >>

\* The lines sign_message writes: the request, whatever it is, and two more
\* lines once the message is signed.
sign_message_log(payload) ==
    LET signed == sign_message(payload)
    IN  << LogLine("POST /message/sign - Request: {}",
                   <<SignMessageRequestToJson(payload)>>) >>
        \o IF signed.ok
           THEN << LogLine("Signed message '{}' with pubkey: {}",
                           <<signed.val.data.message, signed.val.data.public_key>>),
                   LogLine("Response: 200 - Message signed successfully", <<>>) >>
           ELSE <<>>

\* The lines verify_message writes; the public key of the second one is the
\* parsed key, written anew.
verify_message_log(payload) ==
    LET verified == verify_message(payload)
    IN  << LogLine("POST /message/verify - Request: {}",
                   <<VerifyMessageRequestToJson(payload)>>) >>
        \o IF verified.ok
           THEN << LogLine("Verification result: {} for message '{}' with pubkey: {}",
                           << BoolToString(verified.val.data.valid),
                              payload.message.val,
                              PubkeyToString(ParsePubkey(payload.pubkey.val).val) >>),
                   LogLine("Response: 200 - Message verification completed", <<>>) >>
           ELSE <<>>

----------------------------------------------------------------------------
(* f64 (IEEE 754 binary64): the 8 bytes of f64::to_le_bytes, that is 52    *)
(* fraction bits, 11 exponent bits and the sign bit from the least         *)
(* significant end.  The amount of a request is the f64 serde_json parsed. *)
(* Numbers of more than 31 bits are sequences of bits, least significant   *)
(* first.                                                                  *)

BytesToBits(bytes) ==
    [i \in 1..(8 * Len(bytes)) |->
        (bytes[((i - 1) \div 8) + 1] \div (2 ^ ((i - 1) % 8))) % 2]

BitsToBytes(bits, len) ==
    [j \in 1..len |->
        LET BitAt(i) == IF i <= Len(bits) THEN bits[i] ELSE 0
            k == 8 * (j - 1)
        IN  BitAt(k + 1) + (2 * BitAt(k + 2)) + (4 * BitAt(k + 3))
            + (8 * BitAt(k + 4)) + (16 * BitAt(k + 5)) + (32 * BitAt(k + 6))
            + (64 * BitAt(k + 7)) + (128 * BitAt(k + 8))]

\* The place of the highest bit that is set; 0 when none is.
BitLength(bits) ==
    IF \E i \in 1..Len(bits) : bits[i] = 1
    THEN CHOOSE i \in 1..Len(bits) :
            bits[i] = 1 /\ \A j \in (i + 1)..Len(bits) : bits[j] = 0
    ELSE 0

\* The number of a sequence of at most 31 bits.
RECURSIVE BitsToNat(_)
BitsToNat(bits) ==
    IF bits = <<>> THEN 0 ELSE Head(bits) + (2 * BitsToNat(Tail(bits)))

RECURSIVE NatToBits(_)
NatToBits(n) == IF n = 0 THEN <<>> ELSE <<n % 2>> \o NatToBits(n \div 2)

\* An f64 taken apart: its sign, whether it is NaN, an infinity or a zero,
\* and, of a finite one, the magnitude mantissa * 2^scale.  A subnormal
\* number (exponent field 0) has no implicit leading bit.
F64Unpack(x) ==
    LET exponent == ((x[8] % 128) * 16) + (x[7] \div 16)
        fraction == SubSeq(BytesToBits(x), 1, 52)
    IN  [sign |-> x[8] >= 128,
         nan |-> exponent = 2047 /\ BitLength(fraction) # 0,
         infinite |-> exponent = 2047 /\ BitLength(fraction) = 0,
         zero |-> exponent = 0 /\ BitLength(fraction) = 0,
         mantissa |-> IF exponent = 0 THEN fraction ELSE fraction \o <<1>>,
         scale |-> IF exponent = 0 THEN -1074 ELSE exponent - 1075]

\* x <= 0.0: true of both zeros, false of NaN.
F64LeZero(x) ==
    LET u == F64Unpack(x) IN ~u.nan /\ (u.sign \/ u.zero)

\* x > k, for an integer 0 <= k < 2^31: false of NaN.  whole is the
\* integer part of the magnitude, part the bits below it.
F64GtInt(x, k) ==
    LET u == F64Unpack(x)
        n == Len(u.mantissa)
        whole == IF u.scale >= 0 THEN u.mantissa
                 ELSE IF -u.scale >= n THEN <<>>
                 ELSE SubSeq(u.mantissa, 1 - u.scale, n)
        part == IF u.scale >= 0 \/ -u.scale >= n THEN u.mantissa
                ELSE SubSeq(u.mantissa, 1, -u.scale)
        shift == IF u.scale >= 0 THEN u.scale ELSE 0
        fractional == u.scale < 0 /\ BitLength(part) # 0
    IN  /\ ~u.nan
        /\ ~u.sign
        /\ \/ u.infinite
           \/ IF BitLength(whole) = 0 THEN k = 0 /\ fractional
              ELSE IF BitLength(whole) + shift > 31 THEN TRUE
              ELSE LET w == BitsToNat(SubSeq(whole, 1, BitLength(whole)))
                            * (2 ^ shift)
                   IN  w > k \/ (w = k /\ fractional)

\* Round to nearest, ties to even, to 53 significant bits: the bits kept
\* (53, or 54 when the rounding carried) and the number of bits dropped.
\* rest tells that the bits stand for a little more than their number.
RoundTo53(bits, rest) ==
    LET n == BitLength(bits)
        d == n - 53
    IN  IF d <= 0 THEN [mantissa |-> SubSeq(bits, 1, n), dropped |-> 0]
        ELSE LET kept == SubSeq(bits, d + 1, n)
                 more == rest \/ BitLength(SubSeq(bits, 1, d - 1)) # 0
                 up == bits[d] = 1 /\ (more \/ kept[1] = 1)
             IN  [mantissa |-> IF up THEN RadixMulAdd(kept, 1, 1, 2) ELSE kept,
                  dropped |-> d]

\* mantissa * 2^scale as u64: the cast truncates, and saturates at
\* u64::MAX.
MagnitudeToU64(mantissa, scale) ==
    LET n == BitLength(mantissa)
    IN  IF n = 0 \/ n + scale <= 0 THEN U64(0)
        ELSE IF n + scale > 8 * U64_BYTES THEN U64_MAX
        ELSE IF scale >= 0 THEN BitsToBytes(Rep(0, scale) \o mantissa, U64_BYTES)
        ELSE BitsToBytes(SubSeq(mantissa, 1 - scale, n), U64_BYTES)

LAMPORTS_PER_SOL == 1000000000

\* (amount_sol * 1_000_000_000.0) as u64.  The product is the exact one
\* rounded to an f64; the cast truncates, gives 0 for NaN and for a negative
\* number and u64::MAX from 2^64 on.  (An exact product that is beyond the
\* f64 range is above 2^64, one below it is under 1: their rounding changes
\* nothing in the cast.)
SolToLamports(x) ==
    LET u == F64Unpack(x)
    IN  IF u.nan \/ u.sign THEN U64(0)
        ELSE IF u.infinite THEN U64_MAX
        ELSE LET exact == RadixMulAdd(u.mantissa, 0, LAMPORTS_PER_SOL, 2)
                 product == RoundTo53(exact, FALSE)
             IN  MagnitudeToU64(product.mantissa, u.scale + product.dropped)

\* The f64 of a mantissa of 53 or 54 bits, the highest one set, times
\* 2^scale, a normal number.
F64Normal(mantissa, scale) ==
    LET n == BitLength(mantissa)
        fraction == SubSeq(mantissa, n - 52, n - 1)
        exponent == scale + (n - 1) + 1023
    IN  BitsToBytes(fraction \o NatToBits(exponent), 8)

\* Bits, most significant first, divided by d < 2^30: the quotient, least
\* significant bit first, and the remainder.
RECURSIVE DivBits(_, _, _, _)
DivBits(bits, d, quotient, remainder) ==
    IF bits = <<>> THEN [quotient |-> quotient, remainder |-> remainder]
    ELSE LET r == (2 * remainder) + Head(bits)
         IN  DivBits(Tail(bits), d,
                     <<IF r >= d THEN 1 ELSE 0>> \o quotient,
                     IF r >= d THEN r - d ELSE r)

\* lamports as f64 / 1_000_000_000.0, for lamports < 2^31 (which are exact
\* as an f64): the quotient rounded to an f64.  The division is carried to
\* 85 binary places, which gives it 55 bits or more.
LamportsToSol(lamports) ==
    IF lamports = 0 THEN Rep(0, 8)
    ELSE LET q == DivBits(Reverse(Rep(0, 85) \o NatToBits(lamports)),
                          LAMPORTS_PER_SOL, <<>>, 0)
             rounded == RoundTo53(q.quotient, q.remainder # 0)
         IN  F64Normal(rounded.mantissa, rounded.dropped - 85)

\* get_account_info: the ledger client has answered.
get_account_info_got_account(locals, answer) ==
    IF ~answer.ok THEN Done(Err(ClientError(answer.err)))
    ELSE Done(Ok([public_key |-> PubkeyToString(locals.pubkey),
                  balance_sol |-> LamportsToSol(answer.val.lamports),
                  balance_lamports |-> U64(answer.val.lamports),
                  executable |-> answer.val.executable,
                  owner |-> PubkeyToString(answer.val.owner),
                  rent_epoch |-> answer.val.rent_epoch]))

----------------------------------------------------------------------------
(* airdrop.rs *)

MAX_AIRDROP_SOL == 5

\* request_airdrop where the public key is parsed, and the airdrop asked for, before the
\* amount is looked at.
request_airdrop_amount_last(payload) ==
    LET pubkey == ParsePubkey(payload.public_key)
    IN  IF ~pubkey.ok
            THEN Done(Err(InvalidInput("Invalid public key format")))
        ELSE Await("request_airdrop:request_airdrop",
                   [payload |-> payload,
                    pubkey |-> pubkey.val,
                    amount_lamports |-> SolToLamports(payload.amount_sol)])

\* request_airdrop up to its first ledger call.
request_airdrop(payload) ==
    IF F64LeZero(payload.amount_sol) \/ F64GtInt(payload.amount_sol, MAX_AIRDROP_SOL)
        THEN Done(Err(InvalidInput("Amount must be between 0.1 and 5.0 SOL for devnet")))
    ELSE LET pubkey == ParsePubkey(payload.public_key)
         IN  IF ~pubkey.ok
                 THEN Done(Err(InvalidInput("Invalid public key format")))
             ELSE Await("request_airdrop:request_airdrop",
                        [payload |-> payload,
                         pubkey |-> pubkey.val,
                         amount_lamports |-> SolToLamports(payload.amount_sol)])

\* request_airdrop_got_signature where a failed request is made again.
request_airdrop_got_signature_retried(locals, answer) ==
    IF ~answer.ok THEN Await("request_airdrop:request_airdrop", locals)
    ELSE Await("request_airdrop:confirm_transaction",
               [payload |-> locals.payload,
                amount_lamports |-> locals.amount_lamports,
                signature |-> answer.val])

\* client.request_airdrop(&pubkey, amount_lamports) has answered.
request_airdrop_got_signature(locals, answer) ==
    IF ~answer.ok THEN Done(Err(ClientError(answer.err)))
    ELSE Await("request_airdrop:confirm_transaction",
               [payload |-> locals.payload,
                amount_lamports |-> locals.amount_lamports,
                signature |-> answer.val])

\* client.confirm_transaction(&signature) has answered.
request_airdrop_got_confirmation(locals, answer) ==
    IF ~answer.ok THEN Done(Err(ClientError(answer.err)))
    ELSE IF ~answer.val
        THEN Done(Err(TransactionFailed("Airdrop transaction failed to confirm")))
    ELSE Done(Ok([transaction_signature |-> Base58Encode(locals.signature),
                  public_key |-> locals.payload.public_key,
                  amount_sol |-> locals.payload.amount_sol,
                  amount_lamports |-> locals.amount_lamports,
                  message |-> [format |-> "Successfully airdropped {} SOL to account",
                               arg |-> locals.payload.amount_sol]]))

----------------------------------------------------------------------------
(* transfer.rs *)

\* transfer_sol up to its first ledger call.
transfer_sol(payload) ==
    IF F64LeZero(payload.amount_sol)
        THEN Done(Err(InvalidInput("Amount must be greater than 0")))
    ELSE LET to_pubkey == ParsePubkey(payload.to_public_key)
         IN  IF ~to_pubkey.ok
                 THEN Done(Err(InvalidInput("Invalid recipient public key format")))
             ELSE LET private_key_bytes == Base64Decode(payload.from_private_key)
                  IN  IF ~private_key_bytes.ok
                          THEN Done(Err(InvalidInput("Invalid private key format")))
                      ELSE LET from_keypair == KeypairFromBytes(private_key_bytes.val)
                           IN  IF ~from_keypair.ok
                                   THEN Done(Err(InvalidInput("Invalid private key")))
                               ELSE Await("transfer_sol:get_balance",
                                          [payload |-> payload,
                                           to_pubkey |-> to_pubkey.val,
                                           from_keypair |-> from_keypair.val,
                                           amount_lamports |->
                                               SolToLamports(payload.amount_sol)])

\* transfer_sol_got_balance where the balance is not compared with the amount.
transfer_sol_got_balance_unchecked(locals, answer) ==
    IF ~answer.ok THEN Done(Err(ClientError(answer.err)))
    ELSE Await("transfer_sol:get_latest_blockhash", locals)

\* client.get_balance(&from_keypair.pubkey()) has answered.
transfer_sol_got_balance(locals, answer) ==
    IF ~answer.ok THEN Done(Err(ClientError(answer.err)))
    ELSE IF U64Lt(answer.val, locals.amount_lamports)
        THEN Done(Err(InsufficientFunds))
    ELSE Await("transfer_sol:get_latest_blockhash", locals)

\* Transaction::new_signed_with_payer
NewSignedTransaction(instructions, payer, signers, recent_blockhash) ==
    [instructions |-> instructions, payer |-> payer,
     signers |-> signers, recent_blockhash |-> recent_blockhash]

\* client.get_latest_blockhash() has answered: the transfer is built, signed
\* and sent.
transfer_sol_got_blockhash(locals, answer) ==
    IF ~answer.ok THEN Done(Err(ClientError(answer.err)))
    ELSE Await("transfer_sol:send_and_confirm_transaction",
               [payload |-> locals.payload,
                from_keypair |-> locals.from_keypair,
                amount_lamports |-> locals.amount_lamports,
                transaction |->
                    NewSignedTransaction(
                        << SystemTransfer(locals.from_keypair.public, locals.to_pubkey,
                                          locals.amount_lamports) >>,
                        locals.from_keypair.public,
                        << locals.from_keypair.public >>,
                        answer.val)])

\* client.send_and_confirm_transaction(&transaction) has answered.
transfer_sol_got_signature(locals, answer) ==
    IF ~answer.ok THEN Done(Err(TransactionFailed(answer.err)))
    ELSE Done(Ok([transaction_signature |-> Base58Encode(answer.val),
                  from_public_key |-> PubkeyToString(locals.from_keypair.public),
                  to_public_key |-> locals.payload.to_public_key,
                  amount_sol |-> locals.payload.amount_sol,
                  amount_lamports |-> locals.amount_lamports,
                  message |-> [format |-> "Successfully transferred {} SOL",
                               arg |-> locals.payload.amount_sol]]))

----------------------------------------------------------------------------
(* The routers: that of main.rs and those the modules' routes() build.  A  *)
(* router is its routes and its fallback.  A path is the sequence of its   *)
(* segments; a segment that starts with ':' in a route matches any segment. *)

\* The segments of the paths, as texts.
SEG ==
    [ health |-> <<"h","e","a","l","t","h">>,
      keypair |-> <<"k","e","y","p","a","i","r">>,
      token |-> <<"t","o","k","e","n">>,
      create |-> <<"c","r","e","a","t","e">>,
      mint |-> <<"m","i","n","t">>,
      message |-> <<"m","e","s","s","a","g","e">>,
      sign |-> <<"s","i","g","n">>,
      verify |-> <<"v","e","r","i","f","y">>,
      send |-> <<"s","e","n","d">>,
      sol |-> <<"s","o","l">>,
      account |-> <<"a","c","c","o","u","n","t">>,
      param_pubkey |-> <<":","p","u","b","k","e","y">>,
      airdrop |-> <<"a","i","r","d","r","o","p">>,
      transfer |-> <<"t","r","a","n","s","f","e","r">>,
      nope |-> <<"n","o","p","e">> ]

Route(method, path, handler) == [method |-> method, path |-> path, handler |-> handler]

\* The routes() of each module.
keypair_routes == { Route("POST", <<SEG.keypair>>, "generate_keypair") }
token_routes ==
    { Route("POST", <<SEG.token, SEG.create>>, "create_token"),
      Route("POST", <<SEG.token, SEG.mint>>, "mint_token") }
message_routes ==
    { Route("POST", <<SEG.message, SEG.sign>>, "sign_message"),
      Route("POST", <<SEG.message, SEG.verify>>, "verify_message") }
send_routes ==
    { Route("POST", <<SEG.send, SEG.sol>>, "send_sol"),
      Route("POST", <<SEG.send, SEG.token>>, "send_token") }
account_routes ==
    { Route("POST", <<SEG.account, SEG.create>>, "create_account"),
      Route("GET", <<SEG.account, SEG.param_pubkey>>, "get_account_info") }
airdrop_routes == { Route("POST", <<SEG.airdrop>>, "request_airdrop") }
transfer_routes == { Route("POST", <<SEG.transfer>>, "transfer_sol") }

\* The router a module's routes() returns, served as it is: a Router::new()
\* answers a path it has no route for with axum's 404.
ModuleRouter(routes) == [routes |-> routes, fallback |-> "not_found", trace |-> FALSE]

\* main: Router::new().route("/health", ...).merge(keypair).merge(token)
\* .merge(message).merge(send).fallback(handle_404).layer(TraceLayer ..)
AppRouter ==
    [routes |-> { Route("GET", <<SEG.health>>, "health") }
                \cup keypair_routes \cup token_routes \cup message_routes
                \cup send_routes,
     fallback |-> "handle_404",
     trace |-> TRUE]

\* The routers of the modules, each on its own: main serves those of
\* keypair.rs, token.rs, message.rs and send.rs merged as above, and
\* leaves out those of account.rs, airdrop.rs and transfer.rs.
ModuleRouters ==
    { ModuleRouter(routes) :
        routes \in { keypair_routes, token_routes, message_routes, send_routes,
                     account_routes, airdrop_routes, transfer_routes } }

IsParam(segment) == segment # <<>> /\ segment[1] = ":"

Matches(route, path) ==
    /\ Len(route.path) = Len(path)
    /\ \A i \in 1..Len(path) : IsParam(route.path[i]) \/ route.path[i] = path[i]

ParamCount(route) == Cardinality({i \in 1..Len(route.path) : IsParam(route.path[i])})

\* The handler a request reaches: the routes of the matching path with the
\* fewest parameters (a static segment wins over a parameter); the router's
\* fallback when no path matches, 405 when the path matches and the method does not.
Dispatch(router, method, path) ==
    LET matching == {r \in router.routes : Matches(r, path)}
        best == {r \in matching : \A q \in matching : ParamCount(r) <= ParamCount(q)}
    IN  IF matching = {} THEN router.fallback
        ELSE IF \E r \in best : r.method = method
            THEN (CHOOSE r \in best : r.method = method).handler
        ELSE "method_not_allowed"

\* Fallback handler for unmatched routes
handle_404 ==
    [status |-> BAD_REQUEST,
     body |-> [success |-> FALSE, error |-> "Endpoint not found"]]

health == [status |-> OK, body |-> "Solana Server is Healthy!"]

method_not_allowed == [status |-> METHOD_NOT_ALLOWED, body |-> ""]

\* axum's fallback of a router that sets none.
not_found == [status |-> NOT_FOUND, body |-> ""]

----------------------------------------------------------------------------
(* The requests and the ledger's answers the model draws from *)

\* The longest message, in characters.
MaxMsgLen == 2

Keypairs ==
    { [secret |-> KEY1_SECRET, public |-> KEY1_PUBLIC],
      [secret |-> KEY2_SECRET, public |-> KEY2_PUBLIC] }

\* The first secret key with the second public key: not a pair, but 64
\* bytes that Keypair::from_bytes takes.
MIXED_KEYPAIR == [secret |-> KEY1_SECRET, public |-> KEY2_PUBLIC]

A_STR == PubkeyToString(KEY1_PUBLIC)
B_STR == PubkeyToString(KEY2_PUBLIC)
OFF_CURVE_STR == PubkeyToString(OFF_CURVE)
\* Not base-58: 0, O, I and l are not in the alphabet.
BAD_BASE58 == <<"0", "O", "I", "l">>
\* Base-58 of 3 bytes.
SHORT_BASE58 == <<"a", "b", "c">>
\* Not base-64.
BAD_BASE64 == <<"!", "!", "!", "!">>
\* Base-64 of 3 bytes.
SHORT_BASE64 == <<"Q", "U", "J", "D">>

\* An Option<String> field: absent, empty, white space (a space, a form
\* feed and a no-break space), or one of the texts.
TextInputs(texts) ==
    {None, Some(<<>>), Some(<<" ", "\f", "U+00A0">>)} \cup {Some(s) : s \in texts}

AddressInputs == TextInputs({BAD_BASE58, SHORT_BASE58, A_STR, B_STR})

U64Succ(a) == SubSeq(MulAddLE(a, 1, 1), 1, U64_BYTES)

U64Inputs ==
    {None} \cup
    {Some(v) : v \in {U64(0), U64(1), U64(1000), MAX_LAMPORTS, U64Succ(MAX_LAMPORTS),
                      U64Half(U64_MAX), U64Succ(U64Half(U64_MAX)), U64_MAX}}

DecimalsInputs == {None, Some(0), Some(9), Some(10), Some(255)}

\* Every text over {"h", " "} of at most MaxMsgLen characters.
MessageTexts == UNION {[1..n -> {"h", " "}] : n \in 0..MaxMsgLen}
MessageInputs == {None} \cup {Some(m) : m \in MessageTexts}

SecretInputs ==
    TextInputs({BAD_BASE58, SHORT_BASE58, A_STR}
               \cup {Base58Encode(KeypairToBytes(k)) : k \in Keypairs \cup {MIXED_KEYPAIR}}
               \cup {Base58Encode(KEY1_SECRET \o OFF_CURVE)})

\* The signatures sign_message gives, one of them spoilt, one under the
\* mixed pair and one made with another nonce.
SignatureInputs ==
    LET h == AsBytes(<<"h">>)
        key1 == [secret |-> KEY1_SECRET, public |-> KEY1_PUBLIC]
    IN  TextInputs({BAD_BASE64, SHORT_BASE64}
                   \cup {Base64Encode(SignMessage(k, AsBytes(m))) :
                            k \in Keypairs, m \in {t \in MessageTexts : ~IsBlank(t)}}
                   \cup {Base64Encode(FlipByte(SignMessage(key1, h), 1)),
                         Base64Encode(SignMessage(MIXED_KEYPAIR, h)),
                         Base64Encode(OTHER_NONCE_SIGNATURE)})

PubkeyInputs == TextInputs({BAD_BASE58, SHORT_BASE58, A_STR, B_STR, OFF_CURVE_STR})

\* Amounts of SOL, as f64::to_le_bytes gives them: -1, 0, the smallest
\* positive f64 (2^-1074), 0.1, 0.5, 1.005, 5, the next f64 above 5
\* (5 + 2^-50), 5.5 and 10.
SOL_MINUS_1 == <<0, 0, 0, 0, 0, 0, 240, 191>>
SOL_0 == <<0, 0, 0, 0, 0, 0, 0, 0>>
SOL_SMALLEST == <<1, 0, 0, 0, 0, 0, 0, 0>>
SOL_0_1 == <<154, 153, 153, 153, 153, 153, 185, 63>>
SOL_0_5 == <<0, 0, 0, 0, 0, 0, 224, 63>>
SOL_1_005 == <<20, 174, 71, 225, 122, 20, 240, 63>>
SOL_5 == <<0, 0, 0, 0, 0, 0, 20, 64>>
SOL_ABOVE_5 == <<1, 0, 0, 0, 0, 0, 20, 64>>
SOL_5_5 == <<0, 0, 0, 0, 0, 0, 22, 64>>
SOL_10 == <<0, 0, 0, 0, 0, 0, 36, 64>>

AmountSolInputs ==
    { SOL_MINUS_1, SOL_0, SOL_SMALLEST, SOL_0_1, SOL_0_5, SOL_1_005, SOL_5,
      SOL_ABOVE_5, SOL_5_5, SOL_10 }

PrivateKeyInputs ==
    {<<>>, BAD_BASE64, SHORT_BASE64, Base64Encode(KEY1_SECRET \o OFF_CURVE)}
    \cup {Base64Encode(KeypairToBytes(k)) : k \in Keypairs}

Payloads(handler) ==
    CASE handler = "send_sol" ->
            [from : AddressInputs, to : AddressInputs, lamports : U64Inputs]
      [] handler = "send_token" ->
            [destination : AddressInputs, mint : AddressInputs,
             owner : AddressInputs, amount : U64Inputs]
      [] handler = "create_token" ->
            [mintAuthority : AddressInputs, mint : AddressInputs,
             decimals : DecimalsInputs]
      [] handler = "mint_token" ->
            [mint : AddressInputs, destination : AddressInputs,
             authority : AddressInputs, amount : U64Inputs]
      [] handler = "sign_message" ->
            [message : MessageInputs, secret : SecretInputs]
      [] handler = "verify_message" ->
            [message : MessageInputs, signature : SignatureInputs,
             pubkey : PubkeyInputs]
      [] handler = "create_account" -> [save_private_key : BOOLEAN]
      [] handler = "request_airdrop" ->
            [public_key : {<<>>, BAD_BASE58, A_STR, B_STR},
             amount_sol : AmountSolInputs]
      [] handler = "transfer_sol" ->
            [from_private_key : PrivateKeyInputs,
             to_public_key : {BAD_BASE58, A_STR, B_STR},
             amount_sol : AmountSolInputs]
      [] OTHER -> {<<>>}

\* A path of the route: a parameter segment replaced by each of the texts.
PathsOf(route) ==
    IF \E i \in 1..Len(route.path) : IsParam(route.path[i])
    THEN {[i \in 1..Len(route.path) |->
              IF IsParam(route.path[i]) THEN s ELSE route.path[i]] :
          s \in {BAD_BASE58, A_STR, B_STR}}
    ELSE {route.path}

Methods == {"GET", "POST"}

\* The routes of all the modules and of main.
AllRoutes ==
    AppRouter.routes \cup account_routes \cup airdrop_routes \cup transfer_routes

\* The requests to every route, each with the payloads of its handler, and
\* the requests to a path or with a method that no route has.
Requests ==
    UNION {[method : {r.method}, path : PathsOf(r), payload : Payloads(r.handler)] :
           r \in AllRoutes}
    \cup {q \in [method : Methods,
                 path : {r.path : r \in {r \in AllRoutes : PathsOf(r) = {r.path}}}
                        \cup {<<SEG.nope>>},
                 payload : {<<>>}] :
          ~\E r \in AllRoutes : r.method = q.method /\ Matches(r, q.path)}

\* The requests to a server that has served one: the log keeps the lines of
\* every request, and with the cap on its lines this keeps the runs finite.
LaterRequests ==
    { [method |-> "GET", path |-> <<SEG.health>>, payload |-> <<>>],
      [method |-> "POST", path |-> <<SEG.send, SEG.sol>>,
       payload |-> [from |-> None, to |-> None, lamports |-> None]] }

\* The most lines in the log of a server that is given one more request.
MaxLogLines == 6

\* PORT of the environment: not set, which is 3000.
Ports == { <<"3", "0", "0", "0">> }

\* The time a request took, as the Debug of a Duration.
Latencies == { <<"1", "m", "s">> }

RPC_ERROR == "RPC request failed"

\* A signature and a blockhash the ledger answers with.
LEDGER_SIGNATURE ==
    SignMessage([secret |-> KEY2_SECRET, public |-> KEY2_PUBLIC], AsBytes(<<"h">>))
LEDGER_BLOCKHASH == OFF_CURVE

HALF_SOL == 500000000

GetAccountAnswers ==
    {Err(RPC_ERROR)} \cup
    {Ok([lamports |-> l, owner |-> o, executable |-> FALSE, rent_epoch |-> U64_MAX]) :
        l \in {0, HALF_SOL}, o \in {SPL_TOKEN_ID, SYSTEM_PROGRAM_ID}}

TokenBalanceAnswers == {Err(RPC_ERROR), Ok([amount |-> <<"0">>])}

GetBalanceAnswers ==
    {Err(RPC_ERROR)} \cup
    {Ok(b) : b \in {U64(0), U64(HALF_SOL - 1), U64(HALF_SOL),
                    U64MulSat(U64(HALF_SOL), 200)}}

BlockhashAnswers == {Err(RPC_ERROR), Ok(LEDGER_BLOCKHASH)}

SignatureAnswers == {Err(RPC_ERROR), Ok(LEDGER_SIGNATURE)}

ConfirmAnswers == {Err(RPC_ERROR), Ok(FALSE), Ok(TRUE)}

\* The ledger-client operation a handler waits for at each of its calls.
CallOp(call) ==
    CASE call = "mint_token:get_account" -> "get_account"
      [] call = "mint_token:authority_balance" -> "get_token_account_balance"
      [] call = "mint_token:destination_balance" -> "get_token_account_balance"
      [] call = "get_account_info:get_account" -> "get_account"
      [] call = "request_airdrop:request_airdrop" -> "request_airdrop"
      [] call = "request_airdrop:confirm_transaction" -> "confirm_transaction"
      [] call = "transfer_sol:get_balance" -> "get_balance"
      [] call = "transfer_sol:get_latest_blockhash" -> "get_latest_blockhash"
      [] call = "transfer_sol:send_and_confirm_transaction" ->
            "send_and_confirm_transaction"

----------------------------------------------------------------------------
(* The state: one request, from the router to its response *)

VARIABLES
    pc,        \* "idle", the ledger call the handler waits for, or "done"
    handler,   \* the handler the router gave the request to
    request,   \* the request: method, path, payload
    locals,    \* the handler's local variables across its ledger calls
    calls,     \* the ledger-client operations the handler has called
    answers,   \* the ledger's answers to them
    result,    \* the handler's Result, once it has returned one
    response,  \* the HTTP response: status and body
    log        \* the lines written to the log, the oldest first

vars == <<pc, handler, request, locals, calls, answers, result, response, log>>

NoRequest == [method |-> "", path |-> <<>>, payload |-> <<>>]
NoResponse == [status |-> 0, body |-> ""]

\* The line main writes before it serves.
main_log(port) ==
    << LogLine("Solana Server running on http://localhost:{port}", <<port>>) >>

\* No request has been served.
Idle ==
    /\ pc = "idle"
    /\ handler = ""
    /\ request = NoRequest
    /\ locals = <<>>
    /\ calls = <<>>
    /\ answers = <<>>
    /\ result = None
    /\ response = NoResponse

\* main has bound its address and serves.
Init == Idle /\ \E port \in Ports : log = main_log(port)

\* The router of a module, served without main.
InitModules == Idle /\ log = <<>>

\* The log holds no line of a request.
Unserved == log = <<>> \/ \E port \in Ports : log = main_log(port)

\* The handler goes on to `step`: it has returned, and its Result becomes the
\* response, or it has made its next ledger call.
Goto(step) ==
    /\ pc' = step.pc
    /\ locals' = step.locals
    /\ result' = step.result
    /\ IF step.pc = "done"
       THEN /\ response' = IntoResponse(step.result.val)
            /\ calls' = calls
       ELSE /\ response' = response
            /\ calls' = Append(calls, CallOp(step.pc))

\* The handler's first step.
Start(h, req, keypair) ==
    CASE h = "generate_keypair" -> Done(generate_keypair(keypair))
      [] h = "create_account" -> Done(create_account(req.payload, keypair))
      [] h = "get_account_info" -> get_account_info(req.path[2])
      [] h = "send_sol" -> Done(send_sol(req.payload))
      [] h = "send_token" -> Done(send_token(req.payload))
      [] h = "create_token" -> Done(create_token(req.payload))
      [] h = "mint_token" -> mint_token(req.payload)
      [] h = "sign_message" -> Done(sign_message(req.payload))
      [] h = "verify_message" -> Done(verify_message(req.payload))
      [] h = "request_airdrop" -> request_airdrop(req.payload)
      [] h = "transfer_sol" -> transfer_sol(req.payload)

\* The handlers that are no Result-returning function of a module.
Direct(h) ==
    CASE h = "handle_404" -> handle_404
      [] h = "health" -> health
      [] h = "method_not_allowed" -> method_not_allowed
      [] h = "not_found" -> not_found

DirectHandlers == {"handle_404", "health", "method_not_allowed", "not_found"}

\* What the handler writes to the log up to its return or its first ledger
\* call.  The handlers of account.rs, airdrop.rs and transfer.rs, the health
\* closure and axum's own answers write nothing.
HandlerLog(h, req) ==
    CASE h = "generate_keypair" -> generate_keypair_log
      [] h = "send_sol" -> send_sol_log(req.payload)
      [] h = "send_token" -> send_token_log(req.payload)
      [] h = "create_token" -> create_token_log(req.payload)
      [] h = "mint_token" -> mint_token_log(req.payload)
      [] h = "sign_message" -> sign_message_log(req.payload)
      [] h = "verify_message" -> verify_message_log(req.payload)
      [] h = "handle_404" -> handle_404_log
      [] OTHER -> <<>>

\* A request arrives and the router gives it to a handler, which runs to its
\* response or to its first ledger call.
Receive(router) ==
    /\ pc = "idle"
    /\ Len(log) < MaxLogLines
    /\ \E req \in IF Unserved THEN Requests ELSE LaterRequests :
         LET h == Dispatch(router, req.method, req.path)
         IN  /\ request' = req
             /\ handler' = h
             /\ answers' = <<>>
             /\ log' = log \o HandlerLog(h, req)
             /\ IF h \in DirectHandlers
                THEN /\ pc' = "done"
                     /\ response' = Direct(h)
                     /\ UNCHANGED <<locals, calls, result>>
                ELSE \E keypair \in IF h \in {"generate_keypair", "create_account"}
                                    THEN Keypairs
                                    ELSE {CHOOSE k \in Keypairs : TRUE} :
                         Goto(Start(h, req, keypair))

\* The ledger client answers the call the handler waits for, and the handler
\* runs on, writing its lines, to its return or its next call.
Answer(call, answer, step, lines) ==
    /\ pc = call
    /\ answers' = Append(answers, answer)
    /\ Goto(step)
    /\ log' = log \o lines
    /\ UNCHANGED <<handler, request>>

MintTokenGetAccount ==
    \E answer \in GetAccountAnswers :
        Answer("mint_token:get_account", answer,
               mint_token_got_account(locals, answer),
               mint_token_got_account_log(locals, answer))

MintTokenAuthorityBalance ==
    \E answer \in TokenBalanceAnswers :
        Answer("mint_token:authority_balance", answer,
               mint_token_got_authority_balance(locals, answer),
               mint_token_got_authority_balance_log(locals, answer))

MintTokenDestinationBalance ==
    \E answer \in TokenBalanceAnswers :
        Answer("mint_token:destination_balance", answer,
               mint_token_got_destination_balance(locals, answer),
               mint_token_got_destination_balance_log(locals, answer))

GetAccountInfoGetAccount ==
    \E answer \in GetAccountAnswers :
        Answer("get_account_info:get_account", answer,
               get_account_info_got_account(locals, answer), <<>>)

AirdropRequestAirdrop ==
    \E answer \in SignatureAnswers :
        Answer("request_airdrop:request_airdrop", answer,
               request_airdrop_got_signature(locals, answer), <<>>)

AirdropConfirmTransaction ==
    \E answer \in ConfirmAnswers :
        Answer("request_airdrop:confirm_transaction", answer,
               request_airdrop_got_confirmation(locals, answer), <<>>)

TransferGetBalance ==
    \E answer \in GetBalanceAnswers :
        Answer("transfer_sol:get_balance", answer,
               transfer_sol_got_balance(locals, answer), <<>>)

TransferGetLatestBlockhash ==
    \E answer \in BlockhashAnswers :
        Answer("transfer_sol:get_latest_blockhash", answer,
               transfer_sol_got_blockhash(locals, answer), <<>>)

TransferSendAndConfirm ==
    \E answer \in SignatureAnswers :
        Answer("transfer_sol:send_and_confirm_transaction", answer,
               transfer_sol_got_signature(locals, answer), <<>>)

\* The line the TraceLayer of main writes when the response leaves: an event
\* of two fields and no message, the status and the time the request took
\* (a Duration, by its Debug).  Its on_failure writes only for a status of
\* 500 and above, which no handler behind the layer answers with.
on_response(status, latency) ==
    LogLine("status={} latency={:?}", <<U64ToString(U64(status)), latency>>)

\* The response is sent through the layers of the router; the state keeps
\* nothing of the request but the lines in the log.
Respond(router) ==
    /\ pc = "done"
    /\ pc' = "idle"
    /\ handler' = ""
    /\ request' = NoRequest
    /\ locals' = <<>>
    /\ calls' = <<>>
    /\ answers' = <<>>
    /\ result' = None
    /\ response' = NoResponse
    /\ IF router.trace
       THEN \E latency \in Latencies :
                log' = Append(log, on_response(response.status, latency))
       ELSE log' = log

ReceiveApp == Receive(AppRouter)
ReceiveModules == \E router \in ModuleRouters : Receive(router)
RespondApp == Respond(AppRouter)
RespondModules == \E router \in ModuleRouters : Respond(router)

\* The application main builds.
Next ==
    \/ ReceiveApp
    \/ MintTokenGetAccount
    \/ MintTokenAuthorityBalance
    \/ MintTokenDestinationBalance
    \/ RespondApp

Spec == Init /\ [][Next]_vars

\* The handlers behind the routers of their modules, those main leaves out
\* included.
NextModules ==
    \/ ReceiveModules
    \/ MintTokenGetAccount
    \/ MintTokenAuthorityBalance
    \/ MintTokenDestinationBalance
    \/ GetAccountInfoGetAccount
    \/ AirdropRequestAirdrop
    \/ AirdropConfirmTransaction
    \/ TransferGetBalance
    \/ TransferGetLatestBlockhash
    \/ TransferSendAndConfirm
    \/ RespondModules

SpecModules == InitModules /\ [][NextModules]_vars

----------------------------------------------------------------------------
(* What the claims speak of *)

Returned == pc = "done" /\ result.some
Failed(kind) == Returned /\ ~result.val.ok /\ result.val.err.kind = kind
Succeeded == Returned /\ result.val.ok

\* The required fields of the handlers that validate presence: texts and
\* numbers.
TextFields(h) ==
    CASE h = "send_sol" -> {"from", "to"}
      [] h = "send_token" -> {"destination", "mint", "owner"}
      [] h = "create_token" -> {"mintAuthority", "mint"}
      [] h = "mint_token" -> {"mint", "destination", "authority"}
      [] h = "sign_message" -> {"message", "secret"}
      [] h = "verify_message" -> {"message", "signature", "pubkey"}

NumberFields(h) ==
    CASE h = "send_sol" -> {"lamports"}
      [] h = "send_token" -> {"amount"}
      [] h = "create_token" -> {"decimals"}
      [] h = "mint_token" -> {"amount"}
      [] OTHER -> {}

PresenceHandlers ==
    {"send_sol", "send_token", "create_token", "mint_token", "sign_message",
     "verify_message"}

\* Absent, null, or an empty or white-space-only string.
FieldMissing(h, payload, f) ==
    \/ ~payload[f].some
    \/ f \in TextFields(h) /\ IsBlank(payload[f].val)

IsKeypairText(s) ==
    LET b == Base58Decode(s)
    IN  b.ok /\ Len(b.val) = KEYPAIR_LENGTH /\ KeypairFromBytes(b.val).ok

IsSignatureText(s) ==
    LET b == Base64Decode(s) IN b.ok /\ Len(b.val) = SIGNATURE_BYTES

IsAddressText(s) ==
    LET b == Base58Decode(s) IN b.ok /\ Len(b.val) = PUBKEY_BYTES

\* A text field that is present and is not of the format of the field.
FieldMalformed(h, payload, f) ==
    /\ f \in TextFields(h)
    /\ ~FieldMissing(h, payload, f)
    /\ CASE f = "message" -> FALSE
         [] f = "secret" -> ~IsKeypairText(payload[f].val)
         [] f = "signature" -> ~IsSignatureText(payload[f].val)
         [] OTHER -> ~IsAddressText(payload[f].val)

SomeMissing(h, payload) ==
    \E f \in TextFields(h) \cup NumberFields(h) : FieldMissing(h, payload, f)
SomeMalformed(h, payload) ==
    \E f \in TextFields(h) : FieldMalformed(h, payload, f)

\* C1: in send_sol, send_token, create_token, mint_token, sign_message and
\* verify_message, a request with a missing required field and a malformed
\* other field is rejected with MissingFields, whichever the two fields are.
C1_MissingBeforeFormat ==
    (/\ handler \in PresenceHandlers
     /\ SomeMissing(handler, request.payload)
     /\ SomeMalformed(handler, request.payload))
    => Failed("MissingFields")

\* A send_sol request without lamports and with a sender that is no base-58
\* has been rejected.
C1_Witness ==
    /\ handler = "send_sol"
    /\ request.payload.from = Some(BAD_BASE58)
    /\ request.payload.lamports = None
    /\ Failed("MissingFields")

WellFormedMintRequest(payload) ==
    /\ \A f \in TextFields("mint_token") :
          payload[f].some /\ IsAddressText(payload[f].val)
    /\ payload.amount.some /\ payload.amount.val # U64(0)

\* C2: mint_token returns a MintTo instruction for every request with four
\* present, well-formed fields, whatever the ledger client answers.
C2_MintNeverBlocked ==
    (/\ handler = "mint_token"
     /\ WellFormedMintRequest(request.payload)
     /\ pc = "done")
    => Succeeded

TransferCallOrder ==
    <<"get_balance", "get_latest_blockhash", "send_and_confirm_transaction">>

IsPrefix(s, t) == Len(s) <= Len(t) /\ \A i \in 1..Len(s) : s[i] = t[i]

RequestedLamports == SolToLamports(request.payload.amount_sol)

\* C3: transfer_sol calls the ledger client only in the order get_balance,
\* get_latest_blockhash, send_and_confirm_transaction; a balance below the
\* requested lamports ends the request with InsufficientFunds and no further
\* call; the transaction is sent only after a sufficient balance and a
\* blockhash.
C3_TransferCallOrder ==
    handler = "transfer_sol" =>
        /\ IsPrefix(calls, TransferCallOrder)
        /\ (/\ Len(answers) >= 1
            /\ answers[1].ok
            /\ U64Lt(answers[1].val, RequestedLamports))
           => /\ Failed("InsufficientFunds")
              /\ calls = <<"get_balance">>
        /\ Len(calls) = 3
           => /\ answers[1].ok
              /\ U64Le(RequestedLamports, answers[1].val)
              /\ answers[2].ok

\* A transfer of half a SOL met a balance of one lamport less.
C3_Witness ==
    /\ handler = "transfer_sol"
    /\ request.payload.amount_sol = SOL_0_5
    /\ answers = <<Ok(U64(HALF_SOL - 1))>>
    /\ Failed("InsufficientFunds")
    /\ calls = <<"get_balance">>

\* 0 < x <= 5, of the amounts the requests carry.
InAirdropRange(x) == x \in {SOL_SMALLEST, SOL_0_1, SOL_0_5, SOL_1_005, SOL_5}

\* C4: request_airdrop answers an amount outside (0, 5] and a malformed
\* public key with 400 InvalidInput, and has then called the ledger client
\* not once.
C4_AirdropValidatesFirst ==
    (/\ handler = "request_airdrop"
     /\ \/ ~InAirdropRange(request.payload.amount_sol)
        \/ ~IsAddressText(request.payload.public_key))
    => /\ Failed("InvalidInput")
       /\ response.status = 400
       /\ calls = <<>>

\* An airdrop of 10 SOL to a valid address has been refused.
C4_Witness ==
    /\ handler = "request_airdrop"
    /\ request.payload.amount_sol = SOL_10
    /\ request.payload.public_key = A_STR
    /\ Failed("InvalidInput")
    /\ response.status = 400
    /\ calls = <<>>

\* The last answer of the ledger client was a failure.
LedgerFailed == answers # <<>> /\ ~answers[Len(answers)].ok

\* C5: a request that ends in an error after a failed call of the ledger
\* client is answered with 502, and one that ends with MissingFields,
\* InvalidInput or InsufficientFunds for another cause with 400.
C5_StatusByCause ==
    (Returned /\ ~result.val.ok) =>
        IF LedgerFailed
        THEN response.status = 502
        ELSE result.val.err.kind \in {"MissingFields", "InvalidInput", "InsufficientFunds"}
             => response.status = 400

EnvelopeHandlers ==
    {"generate_keypair", "sign_message", "verify_message", "send_sol", "send_token",
     "create_token", "mint_token"}

\* C6: the error responses of /keypair, /message/sign, /message/verify,
\* /send/sol, /send/token, /token/create and /token/mint have the body
\* {"success": false, "error": message}.
C6_ErrorEnvelope ==
    (handler \in EnvelopeHandlers /\ Returned /\ ~result.val.ok) =>
        /\ DOMAIN response.body = {"success", "error"}
        /\ response.body.success = FALSE
        /\ response.body.error = ErrorToString(result.val.err)

\* The endpoint table: every route of every module, and /health.
EndpointTable == [routes |-> AllRoutes, fallback |-> "handle_404"]

\* The request is to an endpoint of the endpoint table.
ToEndpoint ==
    \E r \in EndpointTable.routes :
        r.method = request.method /\ Matches(r, request.path)

\* C7: a request to an endpoint of the endpoint table reaches the handler of
\* the endpoint, and never the fallback handler.
C7_EveryEndpointRouted ==
    (pc # "idle" /\ ToEndpoint) =>
        /\ handler = Dispatch(EndpointTable, request.method, request.path)
        /\ handler # "handle_404"

Present(opt) == opt.some /\ ~IsBlank(opt.val)

\* The messages sign_message signs: neither empty nor white space only.
SignableTexts == {m \in MessageTexts : ~IsBlank(m)}

\* What sign_message returns for a message under a keypair.
Signed(k, m) ==
    [signature |-> Base64Encode(SignMessage(k, AsBytes(m))),
     public_key |-> PubkeyToString(k.public),
     message |-> m]

SecretOf(k) == Base58Encode(KeypairToBytes(k))

\* Every response of sign_message to a signable message under a keypair.
SignedAll ==
    {[key |-> k, msg |-> m, signed |-> Signed(k, m)] : k \in Keypairs, m \in SignableTexts}

\* verify_message, given the signature sign_message returned for a message
\* under a keypair, a message that is not blank and a 32-byte public key,
\* answers valid = true for that message and the public key returned with
\* the signature, and valid = false for another.
VerifiesSigned ==
    (/\ handler = "verify_message"
     /\ Present(request.payload.message)
     /\ Present(request.payload.pubkey)
     /\ request.payload.signature.some
     /\ IsAddressText(request.payload.pubkey.val))
    => \A e \in SignedAll :
          request.payload.signature.val = e.signed.signature
          => /\ Succeeded
             /\ response.status = 200
             /\ response.body.data.valid =
                    (/\ request.payload.message.val = e.msg
                     /\ request.payload.pubkey.val = e.signed.public_key)

\* C8 (as stated): sign_message signs every message, the empty one included,
\* under every valid keypair, and verify_message answers valid = true for the
\* signature, the message and the public key returned, valid = false for
\* another message or public key.
C8_SignAnyThenVerify ==
    /\ handler = "sign_message" =>
          \A k \in Keypairs :
              (/\ request.payload.secret = Some(SecretOf(k))
               /\ request.payload.message.some)
              => /\ Succeeded
                 /\ response.body.data = Signed(k, request.payload.message.val)
    /\ VerifiesSigned

\* C8: sign_message signs every message that is not empty or white space
\* only under every valid keypair, and rejects an empty or white-space-only
\* one as a missing field; verify_message answers valid = true for the
\* signature, the message and the public key returned, and valid = false,
\* with 200, for another non-blank message or another 32-byte public key.
C8_SignThenVerify ==
    /\ handler = "sign_message" =>
          \A k \in Keypairs :
              request.payload.secret = Some(SecretOf(k))
              => IF Present(request.payload.message)
                 THEN /\ Succeeded
                      /\ response.body.data = Signed(k, request.payload.message.val)
                 ELSE Failed("MissingFields")
    /\ VerifiesSigned

\* The signature of "h" under the first keypair has been verified against
\* "h" and the keypair's public key.
C8_Witness ==
    /\ handler = "verify_message"
    /\ request.payload.message = Some(<<"h">>)
    /\ request.payload.pubkey = Some(A_STR)
    /\ request.payload.signature =
          Some(Signed([secret |-> KEY1_SECRET, public |-> KEY1_PUBLIC], <<"h">>).signature)
    /\ response.status = 200
    /\ Succeeded
    /\ response.body.data.valid = TRUE

\* A signature of "h" under the first keypair that sign_message does not
\* give: one made with another nonce.
SignedOtherNonce ==
    [key |-> [secret |-> KEY1_SECRET, public |-> KEY1_PUBLIC],
     msg |-> <<"h">>,
     signed |-> [signature |-> Base64Encode(OTHER_NONCE_SIGNATURE),
                 public_key |-> A_STR,
                 message |-> <<"h">>]]

\* What verify_message answers to a message, a signature and a public key
\* that are present, the message being `message`.
VerifyOutcome(message) ==
    IF /\ IsAddressText(request.payload.pubkey.val)
       /\ IsSignatureText(request.payload.signature.val)
    THEN /\ Succeeded
         /\ response.status = 200
         /\ response.body.data.valid =
                (\E e \in SignedAll \cup {SignedOtherNonce} :
                    /\ e.signed.public_key = request.payload.pubkey.val
                    /\ e.msg = message
                    /\ e.signed.signature = request.payload.signature.val)
    ELSE /\ Failed("InvalidInput")
         /\ response.status = 400

\* C9 (as stated): for every non-empty message, verify_message answers a
\* 32-byte public key and a 64-byte signature with 200 and a boolean valid,
\* and a key or signature of another decoded length with InvalidInput.
C9_VerifyTotalNonEmpty ==
    (/\ handler = "verify_message"
     /\ request.payload.message.some /\ request.payload.message.val # <<>>
     /\ Present(request.payload.signature)
     /\ Present(request.payload.pubkey))
    => VerifyOutcome(request.payload.message.val)

\* C9: for every message that is not empty or white space only,
\* verify_message answers a 32-byte public key and a 64-byte signature with
\* 200 and a boolean valid, true exactly for a signature of the message
\* under the key (the one sign_message gives, or one made with another
\* nonce), and a key or signature of another decoded length with
\* InvalidInput.
C9_VerifyTotal ==
    (/\ handler = "verify_message"
     /\ Present(request.payload.message)
     /\ Present(request.payload.signature)
     /\ Present(request.payload.pubkey))
    => VerifyOutcome(request.payload.message.val)

\* A signature of "h" with its first byte flipped has been answered with
\* 200 and valid = false.
C9_Witness ==
    /\ handler = "verify_message"
    /\ request.payload.message = Some(<<"h">>)
    /\ request.payload.pubkey = Some(A_STR)
    /\ request.payload.signature =
          Some(Base64Encode(FlipByte(
              SignMessage([secret |-> KEY1_SECRET, public |-> KEY1_PUBLIC],
                          AsBytes(<<"h">>)), 1)))
    /\ response.status = 200
    /\ response.body.data.valid = FALSE

\* from and to are present and decode to two different 32-byte addresses,
\* and 1 <= lamports <= 100 000 000 000.
SendSolAccepts(payload) ==
    /\ Present(payload.from) /\ IsAddressText(payload.from.val)
    /\ Present(payload.to) /\ IsAddressText(payload.to.val)
    /\ Base58Decode(payload.from.val) # Base58Decode(payload.to.val)
    /\ payload.lamports.some
    /\ U64Le(U64(1), payload.lamports.val)
    /\ U64Le(payload.lamports.val, U64MulSat(U64(100000), 1000000))

\* C10: send_sol succeeds exactly for such a request, and then answers with
\* the system program, the accounts from and to in this order, and the
\* base-64 of the transfer's encoding: the tag 2 in 4 bytes, then the
\* lamports in 8, little-endian.
C10_SendSolExactly ==
    handler = "send_sol" =>
        /\ Succeeded <=> SendSolAccepts(request.payload)
        /\ Succeeded =>
              /\ response.status = 200
              /\ response.body.success = TRUE
              /\ response.body.data =
                    [program_id |-> Base58Encode(Rep(0, 32)),
                     accounts |-> <<request.payload.from.val, request.payload.to.val>>,
                     instruction_data |->
                         Base64Encode(<<2, 0, 0, 0>> \o request.payload.lamports.val)]

\* 1000 lamports from the first address to the second.
C10_Witness ==
    /\ handler = "send_sol"
    /\ request.payload.from = Some(A_STR)
    /\ request.payload.to = Some(B_STR)
    /\ request.payload.lamports = Some(U64(1000))
    /\ Succeeded
    /\ response.body.data.accounts = <<A_STR, B_STR>>

\* Every field of the texts is present and decodes to a 32-byte address.
AddressesValid(payload, fields) ==
    \A f \in fields : Present(payload[f]) /\ IsAddressText(payload[f].val)

\* The request ended in an InvalidInput before any call of the ledger client.
RejectedAsInvalid == Failed("InvalidInput") /\ calls = <<>>

\* C11: send_token and mint_token, the other fields being valid, accept the
\* amount u64::MAX / 2 and reject every larger amount with InvalidInput.
C11_TokenAmountBound ==
    /\ (/\ handler = "send_token"
        /\ AddressesValid(request.payload, {"destination", "mint", "owner"})
        /\ request.payload.owner # request.payload.destination
        /\ request.payload.amount.some)
       => /\ request.payload.amount.val = U64Half(U64_MAX) => Succeeded
          /\ U64Gt(request.payload.amount.val, U64Half(U64_MAX)) => RejectedAsInvalid
    /\ (/\ handler = "mint_token"
        /\ AddressesValid(request.payload, {"mint", "destination", "authority"})
        /\ request.payload.amount.some)
       => /\ request.payload.amount.val = U64Half(U64_MAX) => ~RejectedAsInvalid
          /\ U64Gt(request.payload.amount.val, U64Half(U64_MAX)) => RejectedAsInvalid

\* C12: create_token, given two valid and different addresses, returns an
\* InitializeMint instruction for decimals from 0 to 9, 0 included, and
\* rejects decimals of 10 or more with InvalidInput.
C12_DecimalsRange ==
    (/\ handler = "create_token"
     /\ AddressesValid(request.payload, {"mint", "mintAuthority"})
     /\ request.payload.mint # request.payload.mintAuthority
     /\ request.payload.decimals.some)
    => IF request.payload.decimals.val <= 9
       THEN /\ Succeeded
            /\ response.status = 200
            /\ response.body.data.program_id = PubkeyToString(SPL_TOKEN_ID)
            /\ response.body.data.instruction_data =
                  Base64Encode(TokenInitializeMint(
                      ParsePubkey(request.payload.mint.val).val,
                      ParsePubkey(request.payload.mintAuthority.val).val,
                      ParsePubkey(request.payload.mintAuthority.val).val,
                      request.payload.decimals.val).data)
       ELSE Failed("InvalidInput")

\* A mint of 0 decimals has been created.
C12_Witness ==
    /\ handler = "create_token"
    /\ request.payload.mint = Some(A_STR)
    /\ request.payload.mintAuthority = Some(B_STR)
    /\ request.payload.decimals = Some(0)
    /\ Succeeded

\* C13: a native transfer from an address to itself is rejected with
\* InvalidInput and calls the ledger client not once, in send_sol and in
\* transfer_sol.
C13_SelfTransferRejected ==
    /\ (/\ handler = "send_sol"
        /\ AddressesValid(request.payload, {"from", "to"})
        /\ Base58Decode(request.payload.from.val) = Base58Decode(request.payload.to.val)
        /\ request.payload.lamports = Some(U64(1000)))
       => RejectedAsInvalid
    /\ (/\ handler = "transfer_sol"
        /\ ~F64LeZero(request.payload.amount_sol)
        /\ \E k \in Keypairs :
              /\ request.payload.from_private_key = Base64Encode(KeypairToBytes(k))
              /\ request.payload.to_public_key = PubkeyToString(k.public))
       => RejectedAsInvalid

\* The text has the other as a part.
Contains(text, part) ==
    \E i \in 0..(Len(text) - Len(part)) : SubSeq(text, i + 1, i + Len(part)) = part

\* The text is in a line of the log.
Logged(part) ==
    \E i \in 1..Len(log) : \E j \in 1..Len(log[i].args) : Contains(log[i].args[j], part)

\* The text is in the body of the response to sign_message.
InSignResponse(part) ==
    /\ Succeeded
    /\ \E f \in {"signature", "public_key", "message"} :
          Contains(response.body.data[f], part)

\* C14: the secret key given to sign_message is neither in the body of the
\* response nor in a line of the log.
C14_SecretNotLogged ==
    handler = "sign_message" =>
        \A k \in Keypairs :
            request.payload.secret = Some(SecretOf(k))
            => ~InSignResponse(SecretOf(k)) /\ ~Logged(SecretOf(k))

\* The details of the errors for an address that does not parse.
FormatDetails(h) ==
    CASE h = "send_sol" -> {"Invalid sender address", "Invalid recipient address"}
      [] h = "send_token" ->
            {"Invalid destination wallet address", "Invalid mint address",
             "Invalid owner address"}
      [] h = "create_token" ->
            {"Invalid mint authority public key", "Invalid mint public key"}

\* The number of the request is above its ceiling.
AboveCeiling(h, payload) ==
    CASE h = "send_sol" ->
            payload.lamports.some /\ U64Gt(payload.lamports.val, MAX_LAMPORTS)
      [] h = "send_token" ->
            payload.amount.some /\ U64Gt(payload.amount.val, U64Half(U64_MAX))
      [] h = "create_token" -> payload.decimals.some /\ payload.decimals.val > 9

\* C15: send_sol, send_token and create_token answer a request with every
\* field present, a malformed address and a number above its ceiling with
\* the error of the address, not the error of the range.
C15_FormatBeforeRange ==
    (/\ handler \in {"send_sol", "send_token", "create_token"}
     /\ ~SomeMissing(handler, request.payload)
     /\ SomeMalformed(handler, request.payload)
     /\ AboveCeiling(handler, request.payload))
    => /\ Failed("InvalidInput")
       /\ result.val.err.detail \in FormatDetails(handler)

\* The amount of the request is present and is 0, and no text is missing.
ZeroAmount ==
    \/ /\ handler = "send_sol"
       /\ request.payload.lamports = Some(U64(0))
       /\ \A f \in TextFields(handler) : ~FieldMissing(handler, request.payload, f)
    \/ /\ handler \in {"send_token", "mint_token"}
       /\ request.payload.amount = Some(U64(0))
       /\ \A f \in TextFields(handler) : ~FieldMissing(handler, request.payload, f)
    \/ /\ handler \in {"request_airdrop", "transfer_sol"}
       /\ request.payload.amount_sol = SOL_0

\* C16: an amount that is present and 0 is rejected with InvalidInput, in
\* send_sol, send_token, mint_token, request_airdrop and transfer_sol.
C16_ZeroIsInvalidInput == ZeroAmount => Failed("InvalidInput")

\* The ledger-client calls of each handler, in the order of its code.
CallOrder(h) ==
    CASE h = "mint_token" ->
            <<"get_account", "get_token_account_balance", "get_token_account_balance">>
      [] h = "get_account_info" -> <<"get_account">>
      [] h = "request_airdrop" -> <<"request_airdrop", "confirm_transaction">>
      [] h = "transfer_sol" -> TransferCallOrder
      [] OTHER -> <<>>

\* The request ended in an error right after its i-th call.
EndedAfter(i) ==
    /\ Len(calls) = i
    /\ Returned /\ ~result.val.ok
    /\ response.status >= 400

\* C17 (as stated): a request calls each operation of the ledger client at
\* most once, and a failed call ends it with an error and no further call.
C17_NoRetryAnyCall ==
    /\ \A i, j \in 1..Len(calls) : calls[i] = calls[j] => i = j
    /\ \A i \in 1..Len(answers) : ~answers[i].ok => EndedAfter(i)

\* The two token-account balances mint_token asks for: their failure is
\* only logged.
AdvisoryCall(i) == handler = "mint_token" /\ i \in {2, 3}

\* C17: a request makes the calls of its handler in their order, each once
\* (mint_token asks for two balances, of two accounts); a failed call ends
\* it with an error and no further call, except the two balance lookups of
\* mint_token, after whose failure the request goes on: to the next lookup,
\* then to the instruction.
C17_NoRetry ==
    /\ IsPrefix(calls, CallOrder(handler))
    /\ Len(answers) <= Len(calls)
    /\ \A i \in 1..Len(answers) :
          ~answers[i].ok =>
              IF AdvisoryCall(i)
              THEN (Len(answers) = i) =>
                       IF i = 2 THEN pc = "mint_token:destination_balance" /\ Len(calls) = 3
                       ELSE Succeeded /\ Len(calls) = 3
              ELSE EndedAfter(i)

\* The blockhash of a transfer could not be fetched: 502, and nothing sent.
C17_Witness ==
    /\ handler = "transfer_sol"
    /\ Len(answers) = 2 /\ answers[1].ok /\ ~answers[2].ok
    /\ calls = <<"get_balance", "get_latest_blockhash">>
    /\ Failed("ClientError")
    /\ response.status = 502

\* The associated token address of a wallet and a mint, both as texts.
AssociatedText(wallet, mint) ==
    PubkeyToString(get_associated_token_address(
        ParsePubkey(wallet).val, ParsePubkey(mint).val))

\* C18: send_token, given three addresses that decode and an amount from 1
\* to u64::MAX / 2, rejects an owner that is the destination with
\* InvalidInput, and otherwise returns the accounts source_ata,
\* destination_ata, owner in this order, the owner alone signing; the
\* destination wallet is an account only where it is one of the three.
C18_SendTokenAccounts ==
    (/\ handler = "send_token"
     /\ AddressesValid(request.payload, {"owner", "destination", "mint"})
     /\ request.payload.amount.some
     /\ U64Lt(U64(0), request.payload.amount.val)
     /\ U64Le(request.payload.amount.val, U64Half(U64_MAX)))
    => LET owner == request.payload.owner.val
           destination == request.payload.destination.val
           mint == request.payload.mint.val
           source_ata == AssociatedText(owner, mint)
           destination_ata == AssociatedText(destination, mint)
       IN  IF Base58Decode(owner) = Base58Decode(destination)
           THEN Failed("InvalidInput")
           ELSE /\ Succeeded
                /\ response.body.data.accounts =
                      << [pubkey |-> source_ata, isSigner |-> FALSE],
                         [pubkey |-> destination_ata, isSigner |-> FALSE],
                         [pubkey |-> owner, isSigner |-> TRUE] >>
                /\ \A i \in 1..Len(response.body.data.accounts) :
                      response.body.data.accounts[i].pubkey = destination
                      => destination \in {source_ata, destination_ata, owner}

\* Tokens of the second address's mint sent from the first address to the
\* second.
C18_Witness ==
    /\ handler = "send_token"
    /\ request.payload.owner = Some(A_STR)
    /\ request.payload.destination = Some(B_STR)
    /\ request.payload.mint = Some(B_STR)
    /\ request.payload.amount = Some(U64Half(U64_MAX))
    /\ Succeeded
    /\ Len(response.body.data.accounts) = 3
    /\ response.body.data.accounts[3] = [pubkey |-> A_STR, isSigner |-> TRUE]

====
